---- MODULE Spec2Model ----
(***************************************************************************)
(* Vote ledger, vote-count projection and spot ownership of Mob Maps.      *)
(*                                                                         *)
(* The consistency engine lives in the database: the tables clips, votes   *)
(* and spots, the triggers _vote_count_trigger and _recalc_spot_owner, and *)
(* the RPC cast_vote (database/complete_schema_fixed.sql).  The RPC runs   *)
(* as one PostgreSQL transaction at the default isolation level READ       *)
(* COMMITTED: every statement of the function reads the rows committed at  *)
(* the moment the statement starts plus the transaction's own writes, a    *)
(* row written by a transaction stays locked until that transaction ends,  *)
(* and nothing a transaction wrote is visible to others before its commit. *)
(*                                                                         *)
(* clips, votes and owner are the committed tables.  A transaction is a    *)
(* record: the position of cast_vote in its code, its local variables and  *)
(* its uncommitted writes.  Every statement of cast_vote and of the        *)
(* triggers is an operator from such a record to the records the statement *)
(* can leave.  Spec runs one operation at a time, each to its end in one   *)
(* step; SpecConc runs the statements of the calls of several sessions     *)
(* interleaved, tx[p] being the transaction of session p, and SpecVoters   *)
(* does so with one session per user.  SpecLedger adds the client's        *)
(* toggleVote (utils/voting.ts) to Spec, SpecFields the UPDATEs the row    *)
(* level security policies admit on clips and spots.                       *)
(***************************************************************************)
EXTENDS Integers, FiniteSets, Sequences, TLC

\* ---------------------------------------------------------------- bounds
NumUsers == 2
NumSpots == 2
NumProcs == 2
MaxClips == 2
MaxVotes == 3
NumRandom == 3
NumNames == 2

\* ------------------------------------------------------------- constants
\* SQL NULL of an id column (uuid); ids are positive.
NULL == 0
\* SQL NULL of the integer column clips.vote_count (vote_count int DEFAULT 0
\* is nullable): a value no count of the model takes.
NullCount == -9
\* generate_invite_code: substr(md5(...), 1, 6), and the length of an md5 text
CodeLen == 6
Md5Len == 32

Users == 1..NumUsers
Spots == 1..NumSpots
Procs == 1..NumProcs

VARIABLES
  clips,     \* public.clips: clip id -> [spot_id, user_id, vote_count, created_at]
  votes,     \* public.votes: set of [id, clip_id, user_id]
  owner,     \* public.spots.owner_user_id: spot -> user or NULL
  nextClip,  \* next clip id (uuid_generate_v4 never repeats an id)
  nextVote,  \* next vote id
  now,       \* now() of the latest clip insert
  tx,        \* session -> running cast_vote transaction
  last,      \* outcome of the operation that completed last
  prev,      \* outcome of the operation before it, if that was a cast_vote
             \* of a user without a vote in the target's spot
  mobs,      \* public.mobs: mob id -> [name, invite_code, owner_user_id]
  members,   \* public.mob_members: set of [mob_id, user_id]
  profiles,  \* public.profiles: user -> [username, display_name]
  screen,    \* session -> MyMobScreen of that device: signed-in user,
             \* currentMob, and the createMob request it is in
  board      \* rows returned by the latest leaderboard read

\* the tables and screens of the mobs and the leaderboard
teamVars == <<mobs, members, profiles, screen, board>>

vars == <<clips, votes, owner, nextClip, nextVote, now, tx, last, prev,
          mobs, members, profiles, screen, board>>

\* ---------------------------------------------------------------- tables
EmptyMap == [x \in {} |-> 0]

\* m with key k set to v (k may be new)
Put(m, k, v) == [x \in DOMAIN m \cup {k} |-> IF x = k THEN v ELSE m[x]]

ClipsOfSpot(cl, s) == {c \in DOMAIN cl : cl[c].spot_id = s}

\* ORDER BY c.vote_count DESC: PostgreSQL sorts NULL first in a DESC order
CountRank(v) == IF v = NullCount THEN MaxVotes + MaxClips + 10 ELSE v

\* BestClips with the tie-break reversed (created_at DESC)
BestClips_LatestFirst(cl, s) ==
  {c \in ClipsOfSpot(cl, s) :
     \A d \in ClipsOfSpot(cl, s) :
        \/ CountRank(cl[c].vote_count) > CountRank(cl[d].vote_count)
        \/ /\ CountRank(cl[c].vote_count) = CountRank(cl[d].vote_count)
           /\ cl[c].created_at >= cl[d].created_at}

\* BestClips without the second sort key (ORDER BY c.vote_count DESC)
BestClips_NoTieBreak(cl, s) ==
  {c \in ClipsOfSpot(cl, s) :
     \A d \in ClipsOfSpot(cl, s) :
        CountRank(cl[c].vote_count) >= CountRank(cl[d].vote_count)}

\* ORDER BY c.vote_count DESC, c.created_at ASC: the clips no other clip of
\* the spot sorts strictly before
BestClips(cl, s) ==
  {c \in ClipsOfSpot(cl, s) :
     \A d \in ClipsOfSpot(cl, s) :
        \/ CountRank(cl[c].vote_count) > CountRank(cl[d].vote_count)
        \/ /\ CountRank(cl[c].vote_count) = CountRank(cl[d].vote_count)
           /\ cl[c].created_at <= cl[d].created_at}

\* (SELECT c.user_id ... LIMIT 1): the values the scalar subquery can yield;
\* NULL when the spot has no clip, any first row when rows tie on both keys
OwnerChoices(cl, s) ==
  IF ClipsOfSpot(cl, s) = {} THEN {NULL}
  ELSE {cl[c].user_id : c \in BestClips(cl, s)}

\* COALESCE(vote_count, 0)
Coalesce(v) == IF v = NullCount THEN 0 ELSE v

\* GREATEST(a, b)
Greatest(a, b) == IF a >= b THEN a ELSE b

\* NewVoteCount without the DELETE branch
NewVoteCount_NoDecrement(op, v) ==
  IF op = "INSERT" THEN Coalesce(v) + 1 ELSE Coalesce(v)

\* _vote_count_trigger: the new vote_count for TG_OP
NewVoteCount(op, v) ==
  IF op = "INSERT" THEN Coalesce(v) + 1
  ELSE Greatest(Coalesce(v) - 1, 0)

\* votes of user u on clips of spot s (votes v JOIN clips c ON c.id = v.clip_id)
VotesInSpot(vs, cl, u, s) ==
  {v \in vs : v.user_id = u /\ v.clip_id \in DOMAIN cl /\ cl[v.clip_id].spot_id = s}

NumVotes(vs, c) == Cardinality({v \in vs : v.clip_id = c})

\* ---------------------------------------------------------- transactions
IdleTx ==
  [pc |-> "idle", uid |-> NULL, target |-> NULL, spot |-> NULL,
   evid |-> NULL, evclip |-> NULL, action |-> "none",
   tgop |-> "none", tgclip |-> NULL, tgspot |-> NULL, newOwner |-> NULL,
   delVotes |-> {}, insVotes |-> {}, cnt |-> EmptyMap, own |-> EmptyMap,
   count |-> NullCount, held0 |-> {}, count0 |-> NullCount, uvotes0 |-> {}]

\* The outcome of an operation, kept for the caller: op and its arguments,
\* the action returned (or the exception raised), the returned count, and
\* what the caller held when the call started: held0 the clips of the
\* target's spot the caller had voted for, count0 the target's vote_count,
\* uvotes0 the caller's votes.
Outcome(op, u, c, action, count, held0, count0, uvotes0) ==
  [op |-> op, uid |-> u, clip |-> c, action |-> action, count |-> count,
   held0 |-> held0, count0 |-> count0, uvotes0 |-> uvotes0]

\* an exception: the operation is rolled back and returns the message only
Raise(op, msg) == Outcome(op, NULL, NULL, msg, NullCount, {}, NullCount, {})

NoOp == Outcome("none", NULL, NULL, "none", NullCount, {}, NullCount, {})

\* what is kept of outcome o when the next operation completes
Remember(o) ==
  IF o.op = "cast_vote" /\ o.uid # NULL /\ o.held0 = {} THEN o ELSE NoOp

\* ViewVotes that loses the transaction's deletes
ViewVotes_KeepDeleted(t) == votes \cup t.insVotes

\* what a statement of transaction t reads: committed rows plus own writes
ViewVotes(t) == {v \in votes : v.id \notin t.delVotes} \cup t.insVotes

ViewClips(t) ==
  [c \in DOMAIN clips |->
     IF c \in DOMAIN t.cnt
       THEN [clips[c] EXCEPT !.vote_count = t.cnt[c]]
       ELSE clips[c]]

\* no mob, no member, profiles without names, nobody signed in on the mob
\* screen, nothing read
NoTeams ==
  /\ mobs = EmptyMap
  /\ members = {}
  /\ profiles = [u \in Users |-> [username |-> NULL, display_name |-> NULL]]
  /\ screen = [p \in Procs |-> [uid |-> NULL, currentMob |-> NULL,
                                 pc |-> "idle", name |-> << >>,
                                   code |-> << >>]]
  /\ board = << >>

Init ==
  /\ clips = EmptyMap
  /\ votes = {}
  /\ owner = [s \in Spots |-> NULL]
  /\ nextClip = 1
  /\ nextVote = 1
  /\ now = 0
  /\ tx = [p \in Procs |-> IdleTx]
  /\ last = NoOp
  /\ prev = NoOp
  /\ NoTeams

\* ------------------------------------------------ statements of cast_vote
\* CastVoteEntry without IF target_spot_id IS NULL THEN RAISE EXCEPTION
CastVoteEntry_NoClipCheck(u, c) ==
  IF u = NULL
    THEN [IdleTx EXCEPT !.pc = "raised", !.action = "Not authenticated"]
    ELSE [IdleTx EXCEPT
            !.pc = "find", !.uid = u, !.target = c,
            !.spot = IF c \in DOMAIN clips THEN clips[c].spot_id ELSE NULL,
            !.uvotes0 = {v \in votes : v.user_id = u}]

\* CastVoteEntry without IF current_user_id IS NULL THEN RAISE EXCEPTION
CastVoteEntry_NoAuthCheck(u, c) ==
  IF c \notin DOMAIN clips
    THEN [IdleTx EXCEPT !.pc = "raised", !.action = "Invalid clip_id"]
    ELSE [IdleTx EXCEPT
            !.pc = "find", !.uid = u, !.target = c,
            !.spot = clips[c].spot_id,
            !.count0 = clips[c].vote_count]

\* RPC entry: the auth.uid() check and the lookup of the target clip's
\* spot.  u = NULL is a caller without identity, c may be the id of no clip.
CastVoteEntry(u, c) ==
  IF u = NULL
    THEN [IdleTx EXCEPT !.pc = "raised", !.action = "Not authenticated"]
    ELSE IF c \notin DOMAIN clips
      THEN [IdleTx EXCEPT !.pc = "raised", !.action = "Invalid clip_id"]
      ELSE [IdleTx EXCEPT
              !.pc = "find", !.uid = u, !.target = c,
              !.spot = clips[c].spot_id,
              !.held0 = {v.clip_id :
                           v \in VotesInSpot(votes, clips, u, clips[c].spot_id)},
              !.count0 = clips[c].vote_count,
              !.uvotes0 = {v \in votes : v.user_id = u}]

\* the branch of cast_vote taken for the result of the SELECT
Branch(t, found) ==
  IF found = {}
    THEN {[t EXCEPT !.pc = "ins", !.action = "added"]}
    ELSE {[t EXCEPT !.evid = v.id, !.evclip = v.clip_id, !.pc = "del",
                    !.action = IF v.clip_id = t.target
                                 THEN "removed" ELSE "moved"] : v \in found}

\* FindExistingVote that looks for a vote on the target clip only
FindExistingVote_TargetOnly(t) ==
  Branch(t, {v \in ViewVotes(t) : v.user_id = t.uid /\ v.clip_id = t.target})

\* FindExistingVote without the condition c.spot_id = target_spot_id
FindExistingVote_AnySpot(t) ==
  Branch(t, {v \in ViewVotes(t) : v.user_id = t.uid})

\* SELECT v.id, v.clip_id INTO existing_vote_id, existing_vote_clip_id ...
\* WHERE v.user_id = current_user_id AND c.spot_id = target_spot_id LIMIT 1
FindExistingVote(t) ==
  Branch(t, VotesInSpot(ViewVotes(t), ViewClips(t), t.uid, t.spot))

\* Continue of a move branch that lacks the INSERT
Continue_NoInsert(stmt, action) == "ret"

\* where cast_vote goes on when the statement stmt and its triggers are done
Continue(stmt, action) ==
  IF stmt = "DELETE" /\ action = "moved" THEN "ins" ELSE "ret"

\* DELETE FROM public.votes WHERE id = existing_vote_id (both branches);
\* deletes no row, and fires no trigger, when the row is gone
DeleteVote(t) ==
  IF \E v \in ViewVotes(t) : v.id = t.evid
    THEN {[t EXCEPT !.delVotes = @ \cup {t.evid},
                    !.tgop = "DELETE", !.tgclip = t.evclip, !.pc = "count"]}
    ELSE {[t EXCEPT !.pc = Continue("DELETE", t.action)]}

\* INSERT INTO public.votes (clip_id, user_id) VALUES (target_clip_id,
\* current_user_id) ON CONFLICT (clip_id, user_id) DO NOTHING; the foreign
\* key votes.clip_id raises when the clip is gone
InsertVote(t) ==
  IF \E v \in ViewVotes(t) : v.clip_id = t.target /\ v.user_id = t.uid
    THEN {[t EXCEPT !.pc = "ret"]}
    ELSE IF t.target \notin DOMAIN clips
      THEN {[t EXCEPT !.pc = "raised", !.action = "foreign_key_violation"]}
      ELSE {[t EXCEPT
               !.insVotes = @ \cup {[id |-> nextVote, clip_id |-> t.target,
                                     user_id |-> t.uid]},
               !.tgop = "INSERT", !.tgclip = t.target, !.pc = "count"]}

\* _vote_count_trigger (AFTER INSERT / AFTER DELETE ON votes):
\* UPDATE public.clips SET vote_count = ... WHERE id = NEW/OLD.clip_id,
\* on the latest version of the row; trg_clips_vote_update follows
VoteCountTrigger(t) ==
  IF t.tgclip \in DOMAIN clips
    THEN {[t EXCEPT
             !.cnt = Put(@, t.tgclip,
                         NewVoteCount(t.tgop, ViewClips(t)[t.tgclip].vote_count)),
             !.tgspot = clips[t.tgclip].spot_id,
             !.pc = "recalc"]}
    ELSE {[t EXCEPT !.pc = Continue(t.tgop, t.action)]}

\* _recalc_spot_owner (AFTER UPDATE OF vote_count ON clips): the scalar
\* subquery of UPDATE public.spots SET owner_user_id = (SELECT ...), read
\* from the snapshot the UPDATE statement starts with
RecalcSpotOwnerSelect(t) ==
  {[t EXCEPT !.newOwner = o, !.pc = "setowner"] :
     o \in OwnerChoices(ViewClips(t), t.tgspot)}

\* _recalc_spot_owner: the write of UPDATE public.spots ... WHERE id =
\* spot_to_update_id, of the value the subquery gave (the subquery does
\* not read the spot row, so a wait for the row lock does not change it)
RecalcSpotOwnerUpdate(t) ==
  {[t EXCEPT !.own = Put(@, t.tgspot, t.newOwner),
             !.pc = Continue(t.tgop, t.action)]}

\* ReturnQuery that reads the count the call started with
ReturnQuery_Stale(t) ==
  {[t EXCEPT !.count = t.count0, !.pc = "commit"]}

\* RETURN QUERY SELECT action, target_clip_id,
\*   (SELECT vote_count FROM public.clips WHERE id = target_clip_id)
ReturnQuery(t) ==
  {[t EXCEPT !.count = IF t.target \in DOMAIN clips
                         THEN ViewClips(t)[t.target].vote_count
                         ELSE NullCount,
             !.pc = "commit"]}

\* the statement transaction t is at
Statement(t) ==
  CASE t.pc = "find" -> FindExistingVote(t)
    [] t.pc = "del" -> DeleteVote(t)
    [] t.pc = "ins" -> InsertVote(t)
    [] t.pc = "count" -> VoteCountTrigger(t)
    [] t.pc = "recalc" -> RecalcSpotOwnerSelect(t)
    [] t.pc = "setowner" -> RecalcSpotOwnerUpdate(t)
    [] t.pc = "ret" -> ReturnQuery(t)

\* the statements from t to the end of its transaction, no other
\* transaction committing meanwhile
RECURSIVE RunStatements(_)
RunStatements(t) ==
  IF t.pc \in {"commit", "raised"} THEN {t}
  ELSE UNION {RunStatements(t2) : t2 \in Statement(t)}

\* what the caller of the finished transaction t gets
OutcomeOf(t) ==
  IF t.pc = "raised" THEN Raise("cast_vote", t.action)
  ELSE Outcome("cast_vote", t.uid, t.target, t.action, t.count,
               t.held0, t.count0, t.uvotes0)

\* Rollback that leaves the writes made so far in the tables
Rollback_KeepWrites(t) ==
  /\ votes' = ViewVotes(t)
  /\ clips' = ViewClips(t)
  /\ owner' = [s \in Spots |->
                 IF s \in DOMAIN t.own THEN t.own[s] ELSE owner[s]]

\* the transaction of the RPC ends in an error: none of its writes stays
Rollback(t) == UNCHANGED <<clips, votes, owner>>

\* commit of t: its writes reach the tables; a raised exception rolls back
Finish(t) ==
  IF t.pc = "raised"
    THEN Rollback(t)
    ELSE /\ votes' = ViewVotes(t)
         /\ clips' = ViewClips(t)
         /\ owner' = [s \in Spots |->
                        IF s \in DOMAIN t.own THEN t.own[s] ELSE owner[s]]

\* supabase.rpc('cast_vote', {target_clip_id: c}) by user u, start to end
CastVote(u, c) ==
  /\ nextVote <= MaxVotes
  /\ \E t \in RunStatements(CastVoteEntry(u, c)) :
       /\ Finish(t)
       /\ nextVote' = nextVote + Cardinality(t.insVotes)
       /\ last' = OutcomeOf(t)
  /\ prev' = Remember(last)
  /\ UNCHANGED <<nextClip, now, tx>>
  /\ UNCHANGED teamVars

\* ------------------------------------------------------------- row locks
\* rows another session than p has written and not yet committed (p = NULL:
\* any session)
VoteRowLocked(p, id) == \E q \in Procs \ {p} : id \in tx[q].delVotes
ClipRowLocked(p, c) == \E q \in Procs \ {p} : c \in DOMAIN tx[q].cnt
SpotRowLocked(p, s) == \E q \in Procs \ {p} : s \in DOMAIN tx[q].own

\* an uncommitted row with the same unique key (clip_id, user_id), or a
\* committed one that another session is deleting
VoteKeyBusy(p, c, u) ==
  \E q \in Procs \ {p} :
     \/ \E v \in tx[q].insVotes : v.clip_id = c /\ v.user_id = u
     \/ \E v \in votes : v.clip_id = c /\ v.user_id = u /\ v.id \in tx[q].delVotes

\* a vote row of clip c is being inserted or deleted by some session
ClipVotesBusy(c) ==
  \E q \in Procs :
     \/ \E v \in tx[q].insVotes : v.clip_id = c
     \/ \E v \in votes : v.clip_id = c /\ v.id \in tx[q].delVotes

Quiescent == \A p \in Procs : tx[p].pc = "idle"

\* -------------------------------------------------------------- clip rows
\* uploadClip: supabase.from('clips').insert({spot_id, user_id, ...}) with
\* vote_count DEFAULT 0 and created_at DEFAULT now(); dt = 0 is an upload
\* with the created_at of the one before.  trg_clips_after_insert runs
\* _recalc_spot_owner in the same statement.
InsertClip(u, s, dt) ==
  /\ nextClip <= MaxClips
  /\ ~SpotRowLocked(NULL, s)
  /\ now' = now + dt
  /\ clips' = Put(clips, nextClip,
                  [spot_id |-> s, user_id |-> u, vote_count |-> 0,
                   created_at |-> now'])
  /\ nextClip' = nextClip + 1
  /\ \E o \in OwnerChoices(clips', s) : owner' = [owner EXCEPT ![s] = o]
  /\ last' = Outcome("insert_clip", u, nextClip, "inserted", 0, {}, NullCount, {})
  /\ prev' = Remember(last)
  /\ UNCHANGED <<votes, nextVote, tx>>
  /\ UNCHANGED teamVars

\* DeleteClipRow without trg_clips_after_delete: the owner stays
DeleteClipRow_NoRecalc(op, u, c) ==
  /\ c \in DOMAIN clips
  /\ ~ClipRowLocked(NULL, c)
  /\ ~SpotRowLocked(NULL, clips[c].spot_id)
  /\ ~ClipVotesBusy(c)
  /\ votes' = {v \in votes : v.clip_id # c}
  /\ clips' = [d \in DOMAIN clips \ {c} |-> clips[d]]
  /\ owner' = owner
  /\ last' = Outcome(op, u, c, "deleted", NullCount, {}, clips[c].vote_count, {})
  /\ prev' = Remember(last)
  /\ UNCHANGED <<nextClip, nextVote, now, tx>>
  /\ UNCHANGED teamVars

\* DELETE FROM public.clips WHERE id = c: votes.clip_id ON DELETE CASCADE
\* removes the clip's votes (their _vote_count_trigger finds no clip row
\* to update), then trg_clips_after_delete runs _recalc_spot_owner
DeleteClipRow(op, u, c) ==
  /\ c \in DOMAIN clips
  /\ ~ClipRowLocked(NULL, c)
  /\ ~SpotRowLocked(NULL, clips[c].spot_id)
  /\ ~ClipVotesBusy(c)
  /\ votes' = {v \in votes : v.clip_id # c}
  /\ clips' = [d \in DOMAIN clips \ {c} |-> clips[d]]
  /\ \E o \in OwnerChoices(clips', clips[c].spot_id) :
        owner' = [owner EXCEPT ![clips[c].spot_id] = o]
  /\ last' = Outcome(op, u, c, "deleted", NullCount, {}, clips[c].vote_count, {})
  /\ prev' = Remember(last)
  /\ UNCHANGED <<nextClip, nextVote, now, tx>>
  /\ UNCHANGED teamVars

\* a client's delete of its own clip, policy "Clips delete own":
\* USING (auth.uid() = user_id)
DeleteClip(u, c) ==
  /\ c \in DOMAIN clips
  /\ clips[c].user_id = u
  /\ DeleteClipRow("delete_clip", u, c)

\* ------------------------------------------------ one operation at a time
ClipIds == 1..MaxClips

Next ==
  \/ \E u \in Users \cup {NULL}, c \in ClipIds : CastVote(u, c)
  \/ \E u \in Users, s \in Spots, dt \in {0, 1} : InsertClip(u, s, dt)
  \/ \E u \in Users, c \in ClipIds : DeleteClip(u, c)

Spec == Init /\ [][Next]_vars

\* ------------------------------------------------- interleaved statements
\* session p runs one statement: its transaction goes to one of the records
\* in next; a raised exception ends the call and rolls its writes back
TxStep(p, next) ==
  /\ \E t \in next :
       /\ nextVote' = nextVote + Cardinality(t.insVotes)
                               - Cardinality(tx[p].insVotes)
       /\ IF t.pc = "raised"
            THEN /\ tx' = [tx EXCEPT ![p] = IdleTx]
                 /\ last' = OutcomeOf(t)
                 /\ prev' = Remember(last)
                 /\ Rollback(tx[p])
            ELSE /\ tx' = [tx EXCEPT ![p] = t]
                 /\ UNCHANGED <<last, prev, clips, votes, owner>>
  /\ UNCHANGED <<nextClip, now>>
  /\ UNCHANGED teamVars

\* session p calls cast_vote(c) as user u
BeginCastVote(p, u, c) ==
  /\ tx[p].pc = "idle"
  /\ nextVote + Cardinality({q \in Procs : tx[q].pc # "idle"}) <= MaxVotes
  /\ TxStep(p, {CastVoteEntry(u, c)})

FindStmt(p) ==
  /\ tx[p].pc = "find"
  /\ TxStep(p, FindExistingVote(tx[p]))

\* waits while another session's uncommitted DELETE holds the row
DeleteStmt(p) ==
  /\ tx[p].pc = "del"
  /\ ~VoteRowLocked(p, tx[p].evid)
  /\ TxStep(p, DeleteVote(tx[p]))

\* ON CONFLICT waits for an uncommitted row with the same key
InsertStmt(p) ==
  /\ tx[p].pc = "ins"
  /\ ~VoteKeyBusy(p, tx[p].target, tx[p].uid)
  /\ TxStep(p, InsertVote(tx[p]))

\* waits for the lock of the clip row, then updates its latest version
CountStmt(p) ==
  /\ tx[p].pc = "count"
  /\ ~ClipRowLocked(p, tx[p].tgclip)
  /\ TxStep(p, VoteCountTrigger(tx[p]))

RecalcSelectStmt(p) ==
  /\ tx[p].pc = "recalc"
  /\ TxStep(p, RecalcSpotOwnerSelect(tx[p]))

\* waits for the lock of the spot row
RecalcUpdateStmt(p) ==
  /\ tx[p].pc = "setowner"
  /\ ~SpotRowLocked(p, tx[p].tgspot)
  /\ TxStep(p, RecalcSpotOwnerUpdate(tx[p]))

ReturnStmt(p) ==
  /\ tx[p].pc = "ret"
  /\ TxStep(p, ReturnQuery(tx[p]))

\* the RPC returns: commit, the locks of p are released
CommitStmt(p) ==
  /\ tx[p].pc = "commit"
  /\ Finish(tx[p])
  /\ tx' = [tx EXCEPT ![p] = IdleTx]
  /\ last' = OutcomeOf(tx[p])
  /\ prev' = Remember(last)
  /\ UNCHANGED <<nextClip, nextVote, now>>
  /\ UNCHANGED teamVars

\* the sessions p waits for
WaitsFor(p) ==
  {q \in Procs \ {p} :
     \/ tx[p].pc = "del" /\ tx[p].evid \in tx[q].delVotes
     \/ tx[p].pc = "ins" /\ VoteKeyBusy(p, tx[p].target, tx[p].uid)
                         /\ ~VoteKeyBusy(q, tx[p].target, tx[p].uid)
     \/ tx[p].pc = "count" /\ tx[p].tgclip \in DOMAIN tx[q].cnt
     \/ tx[p].pc = "setowner" /\ tx[p].tgspot \in DOMAIN tx[q].own}

\* PostgreSQL's deadlock detector: of two sessions that wait for each other
\* one gets the error "deadlock detected" and is rolled back
DeadlockAbort(p) ==
  /\ \E q \in WaitsFor(p) : p \in WaitsFor(q)
  /\ TxStep(p, {[tx[p] EXCEPT !.pc = "raised", !.action = "deadlock detected"]})

Statements(p) ==
  \/ FindStmt(p)
  \/ DeleteStmt(p)
  \/ InsertStmt(p)
  \/ CountStmt(p)
  \/ RecalcSelectStmt(p)
  \/ RecalcUpdateStmt(p)
  \/ ReturnStmt(p)
  \/ CommitStmt(p)
  \/ DeadlockAbort(p)

\* calls of cast_vote by any users, their statements interleaved
NextConc ==
  \/ \E p \in Procs, u \in Users, c \in ClipIds : BeginCastVote(p, u, c)
  \/ \E p \in Procs : Statements(p)
  \/ \E u \in Users, s \in Spots : Quiescent /\ InsertClip(u, s, 1)

SpecConc == Init /\ [][NextConc]_vars

\* calls of cast_vote by different voters: session p is the session of
\* user p; clips are uploaded between the calls
NextVoters ==
  \/ \E p \in Procs \cap Users, c \in ClipIds : BeginCastVote(p, p, c)
  \/ \E p \in Procs : Statements(p)
  \/ \E u \in Users, s \in Spots : Quiescent /\ InsertClip(u, s, 1)

SpecVoters == Init /\ [][NextVoters]_vars

\* the call of session p is cancelled before it has committed (statement
\* timeout, lost connection): the transaction is rolled back and the
\* caller gets the error; the outcome keeps what the caller held when the
\* call started
AbortCall(p) ==
  /\ tx[p].pc # "idle"
  /\ Rollback(tx[p])
  /\ tx' = [tx EXCEPT ![p] = IdleTx]
  /\ nextVote' = nextVote - Cardinality(tx[p].insVotes)
  /\ last' = Outcome("cast_vote", tx[p].uid, tx[p].target, "canceled",
                     NullCount, tx[p].held0, tx[p].count0, tx[p].uvotes0)
  /\ prev' = Remember(last)
  /\ UNCHANGED <<nextClip, now>>
  /\ UNCHANGED teamVars

\* the session of the calls that run one at a time
Session == CHOOSE p \in Procs : TRUE

\* calls of cast_vote one at a time, statement by statement, any of which
\* may be cancelled at any statement; clips are uploaded between the calls
NextAbort ==
  \/ \E u \in Users \cup {NULL}, c \in ClipIds : BeginCastVote(Session, u, c)
  \/ FindStmt(Session)
  \/ DeleteStmt(Session)
  \/ InsertStmt(Session)
  \/ CountStmt(Session)
  \/ RecalcSelectStmt(Session)
  \/ RecalcUpdateStmt(Session)
  \/ ReturnStmt(Session)
  \/ CommitStmt(Session)
  \/ AbortCall(Session)
  \/ \E u \in Users, s \in Spots : Quiescent /\ InsertClip(u, s, 1)

SpecAbort == Init /\ [][NextAbort]_vars

\* ------------------------------------------- requests beside the RPC
\* toggleVote(clipId) of utils/voting.ts (vote of SpotScreen.tsx is the same
\* requests): SELECT the caller's vote on this clip; DELETE it by id, or
\* INSERT (clip_id, user_id); then SELECT the clip's vote_count.  The
\* policies "Votes insert own" and "Votes delete own" admit both writes, and
\* the triggers of the votes table run in the writing statement.
ToggleVote(u, c) ==
  /\ nextVote <= MaxVotes
  /\ LET found == {v \in votes : v.clip_id = c /\ v.user_id = u}
         base == [IdleTx EXCEPT
                    !.uid = u, !.target = c,
                    !.held0 = {v.clip_id : v \in {w \in votes : w.user_id = u}},
                    !.uvotes0 = {v \in votes : v.user_id = u}]
         start == IF found = {}
                    THEN {[base EXCEPT !.pc = "ins", !.action = "added"]}
                    ELSE {[base EXCEPT !.pc = "del", !.action = "removed",
                                       !.evid = v.id, !.evclip = c] : v \in found}
     IN \E t0 \in start : \E t \in RunStatements(t0) :
          /\ Finish(t)
          /\ nextVote' = nextVote + Cardinality(t.insVotes)
          /\ last' = IF t.pc = "raised" THEN Raise("toggleVote", t.action)
                     ELSE [OutcomeOf(t) EXCEPT !.op = "toggleVote"]
  /\ prev' = Remember(last)
  /\ UNCHANGED <<nextClip, now, tx>>
  /\ UNCHANGED teamVars

\* UPDATE public.clips SET vote_count = n WHERE id = c by user u through
\* the REST API: policy "Clips update own" USING (auth.uid() = user_id)
\* restricts the row, not the column; trg_clips_vote_update then runs
\* _recalc_spot_owner
UpdateOwnClip(u, c, n) ==
  /\ c \in DOMAIN clips
  /\ clips[c].user_id = u
  /\ clips' = [clips EXCEPT ![c].vote_count = n]
  /\ \E o \in OwnerChoices(clips', clips[c].spot_id) :
        owner' = [owner EXCEPT ![clips[c].spot_id] = o]
  /\ last' = Outcome("update_clip", u, c, "updated", n, {}, clips[c].vote_count, {})
  /\ prev' = Remember(last)
  /\ UNCHANGED <<votes, nextClip, nextVote, now, tx>>
  /\ UNCHANGED teamVars

\* UPDATE public.spots SET owner_user_id = x WHERE id = s by user u: policy
\* spots_update_owner USING (owner_user_id = auth.uid())
\* WITH CHECK (owner_user_id = auth.uid())
UpdateOwnSpot(u, s, x) ==
  /\ owner[s] = u
  /\ x = u
  /\ owner' = [owner EXCEPT ![s] = x]
  /\ last' = Outcome("update_spot", u, NULL, "updated", NullCount, {}, NullCount, {})
  /\ prev' = Remember(last)
  /\ UNCHANGED <<clips, votes, nextClip, nextVote, now, tx>>
  /\ UNCHANGED teamVars

\* the operations of Spec and toggleVote, one at a time
NextLedger ==
  \/ Next
  \/ \E u \in Users, c \in ClipIds : ToggleVote(u, c)

SpecLedger == Init /\ [][NextLedger]_vars

\* cast_vote, clip uploads and deletes, and the UPDATEs of a signed-in
\* client on its own clips and spots, one at a time; n is NULL, negative,
\* zero or a count above that of every other clip
NextFields ==
  \/ \E u \in Users, c \in ClipIds : CastVote(u, c)
  \/ \E u \in Users, s \in Spots : InsertClip(u, s, 1)
  \/ \E u \in Users, c \in ClipIds : DeleteClip(u, c)
  \/ \E u \in Users, c \in ClipIds, n \in {NullCount, -1, 0, MaxVotes} :
        UpdateOwnClip(u, c, n)
  \/ \E u \in Users, s \in Spots, x \in Users \cup {NULL} : UpdateOwnSpot(u, s, x)

SpecFields == Init /\ [][NextFields]_vars

\* ------------------------------------------------------ owner repair
\* the rows a clips table can hold after direct updates of vote_count
ClipRows ==
  [spot_id : Spots, user_id : Users,
   vote_count : {NullCount} \cup 0..MaxVotes, created_at : {0, 1}]

\* tables as the races of concurrent calls and direct writes can leave
\* them: any clips, any owners, whether or not they agree
InitResolver ==
  /\ \E k \in 0..MaxClips :
        /\ clips \in [1..k -> ClipRows]
        /\ nextClip = k + 1
  /\ owner \in [Spots -> Users \cup {NULL}]
  /\ votes = {}
  /\ nextVote = 1
  /\ now = 1
  /\ tx = [p \in Procs |-> IdleTx]
  /\ last = NoOp
  /\ prev = NoOp
  /\ NoTeams

\* what one run of _recalc_spot_owner for spot s can leave of the owners ow
RecalcOwnerResults(cl, ow, s) ==
  {[ow EXCEPT ![s] = o] : o \in OwnerChoices(cl, s)}

\* _recalc_spot_owner alone, run for the row of clip c: the trigger
\* trg_clips_vote_update of an UPDATE that sets vote_count to the value it
\* has (as the vote_count repair does for a clip whose count is right)
RecalcOwner(c) ==
  /\ c \in DOMAIN clips
  /\ owner' \in RecalcOwnerResults(clips, owner, clips[c].spot_id)
  /\ last' = Outcome("recalc_owner", NULL, c, "recalculated", NullCount,
                     {}, NullCount, {})
  /\ prev' = Remember(last)
  /\ UNCHANGED <<clips, votes, nextClip, nextVote, now, tx>>
  /\ UNCHANGED teamVars

\* RecalcAllResults without WHERE EXISTS (SELECT 1 FROM public.clips ...)
RecalcAllResults_NoExists(cl, ow) ==
  {f \in [Spots -> Users \cup {NULL}] :
     \A s \in Spots : f[s] \in OwnerChoices(cl, s)}

\* recalculate_all_spot_owners: UPDATE public.spots SET owner_user_id =
\* (SELECT c.user_id ... WHERE c.spot_id = public.spots.id ORDER BY
\* c.vote_count DESC, c.created_at ASC LIMIT 1) WHERE EXISTS (...): the
\* owners the one statement can leave
RecalcAllResults(cl, ow) ==
  {f \in [Spots -> Users \cup {NULL}] :
     \A s \in Spots :
        IF ClipsOfSpot(cl, s) = {} THEN f[s] = ow[s]
        ELSE f[s] \in OwnerChoices(cl, s)}

RecalcAllOwners ==
  /\ owner' \in RecalcAllResults(clips, owner)
  /\ last' = Outcome("recalculate_all_spot_owners", NULL, NULL, "recalculated",
                     NullCount, {}, NullCount, {})
  /\ prev' = Remember(last)
  /\ UNCHANGED <<clips, votes, nextClip, nextVote, now, tx>>
  /\ UNCHANGED teamVars

NextResolver ==
  \/ \E c \in ClipIds : RecalcOwner(c)
  \/ RecalcAllOwners

SpecResolver == InitResolver /\ [][NextResolver]_vars

\* ---------------------------------------------------------------- claims
CastVoteDone == last.op = "cast_vote" /\ last.action \in {"added", "removed", "moved"}

\* the clips of spot s that user u has a vote on
HeldClips(vs, cl, u, s) == {v.clip_id : v \in VotesInSpot(vs, cl, u, s)}

\* owner o of spot s is the uploader of a clip of s that no other clip of s
\* beats (vote_count higher, or equal and created earlier); NULL without clips
Resolved(cl, s, o) ==
  IF \A c \in DOMAIN cl : cl[c].spot_id # s
    THEN o = NULL
    ELSE \E c \in DOMAIN cl :
           /\ cl[c].spot_id = s
           /\ o = cl[c].user_id
           /\ \A d \in DOMAIN cl :
                 cl[d].spot_id = s =>
                   \/ cl[d].vote_count < cl[c].vote_count
                   \/ /\ cl[d].vote_count = cl[c].vote_count
                      /\ cl[c].created_at <= cl[d].created_at

\* C1: one vote per territory: after any sequence of cast_vote calls every
\* user holds at most one vote across the clips of any one spot.
C1_OneVotePerTerritory ==
  \A u \in Users, s \in Spots :
     Cardinality(VotesInSpot(votes, clips, u, s)) <= 1

\* a user who has voted in two spots at once, one vote in each
C1_Witness ==
  \E u \in Users :
     /\ \A s \in Spots : Cardinality(VotesInSpot(votes, clips, u, s)) = 1
     /\ CastVoteDone /\ last.uid = u

\* C2: two concurrent cast_vote calls of one voter on clips of one spot,
\* however their statements interleave, never leave the voter with votes
\* on two clips of the spot once both calls have returned.
C2_ConcurrentSameVoter ==
  Quiescent =>
    \A u \in Users, s \in Spots :
       Cardinality(HeldClips(votes, clips, u, s)) <= 1

\* C3: ownership invariant: every spot's owner is the uploader of a clip of
\* the spot that no other clip of the spot beats on (vote_count higher, or
\* equal and created earlier), and is NULL when the spot has no clip.
C3_OwnershipInvariant == \A s \in Spots : Resolved(clips, s, owner[s])

\* votes have taken a spot from the uploader of its earliest clip
C3_Witness ==
  \E c, d \in DOMAIN clips :
     /\ clips[c].spot_id = clips[d].spot_id
     /\ clips[c].created_at < clips[d].created_at
     /\ clips[c].user_id # clips[d].user_id
     /\ clips[d].vote_count > clips[c].vote_count
     /\ owner[clips[d].spot_id] = clips[d].user_id

\* C4: vote-count consistency: every clip's vote_count is the number of
\* votes in the ledger that reference the clip.
C4_VoteCountConsistency ==
  \A c \in DOMAIN clips :
     clips[c].vote_count = Cardinality({v \in votes : v.clip_id = c})

\* a clip two users had voted for, after one of them took the vote back
C4_Witness ==
  /\ CastVoteDone /\ last.action = "removed" /\ last.count0 = 2
  /\ last.clip \in DOMAIN clips /\ clips[last.clip].vote_count = 1

\* C5: toggle law: when u holds no vote in the spot of clip c, cast_vote(u, c)
\* directly followed by cast_vote(u, c) returns added and then removed, and
\* leaves c's vote_count and u's votes as they were before the two calls.
C5_ToggleLaw ==
  ( /\ prev.op = "cast_vote" /\ prev.uid # NULL /\ prev.held0 = {}
    /\ last.op = "cast_vote" /\ last.uid = prev.uid /\ last.clip = prev.clip )
  => /\ prev.action = "added"
     /\ last.action = "removed"
     /\ last.clip \in DOMAIN clips
     /\ clips[last.clip].vote_count = prev.count0
     /\ {v \in votes : v.user_id = last.uid} = prev.uvotes0

\* such a pair of calls by a user who keeps a vote in another spot
C5_Witness ==
  /\ prev.op = "cast_vote" /\ prev.action = "added" /\ prev.held0 = {}
  /\ prev.uvotes0 # {}
  /\ last.op = "cast_vote" /\ last.action = "removed"
  /\ last.uid = prev.uid /\ last.clip = prev.clip

\* C6: move law: when u holds a vote on clip c1, cast_vote(u, c2) for another
\* clip c2 of the same spot returns moved; afterwards u's only vote in the
\* spot is on c2, c1 has one vote less and c2 one more, and the spot's owner
\* is the uploader of a clip no other clip of the spot beats.
C6_MoveLaw ==
  [][\A u \in Users, c2 \in DOMAIN clips :
       ( /\ last'.op = "cast_vote" /\ last'.uid = u /\ last'.clip = c2
         /\ HeldClips(votes, clips, u, clips[c2].spot_id) # {}
         /\ c2 \notin HeldClips(votes, clips, u, clips[c2].spot_id) )
       => /\ last'.action = "moved"
          /\ Cardinality(VotesInSpot(votes', clips', u, clips[c2].spot_id)) = 1
          /\ HeldClips(votes', clips', u, clips[c2].spot_id) = {c2}
          /\ \A c1 \in HeldClips(votes, clips, u, clips[c2].spot_id) :
                clips'[c1].vote_count = clips[c1].vote_count - 1
          /\ clips'[c2].vote_count = clips[c2].vote_count + 1
          /\ last'.count = clips'[c2].vote_count
          /\ Resolved(clips', clips[c2].spot_id, owner'[clips[c2].spot_id])]_vars

\* a moved vote has changed the owner of the spot
C6_Witness ==
  /\ CastVoteDone /\ last.action = "moved"
  /\ last.held0 # {} /\ last.clip \notin last.held0
  /\ last.clip \in DOMAIN clips
  /\ owner[clips[last.clip].spot_id] = clips[last.clip].user_id
  /\ \E c1 \in last.held0 :
        /\ c1 \in DOMAIN clips
        /\ clips[c1].user_id # clips[last.clip].user_id
        /\ clips[c1].created_at < clips[last.clip].created_at

\* C7: cast_vote(u, c) returns added exactly when u held no vote in c's spot
\* before the call, removed exactly when u's vote there was on c, moved
\* exactly when it was on another clip of the spot; after added and moved
\* the vote (u, c) exists, after removed it does not.
C7_ActionByCase ==
  CastVoteDone =>
    /\ last.action = "added" <=> last.held0 = {}
    /\ last.action = "removed" <=> last.clip \in last.held0
    /\ last.action = "moved" <=> (last.held0 # {} /\ last.clip \notin last.held0)
    /\ last.action \in {"added", "moved"} =>
          \E v \in votes : v.user_id = last.uid /\ v.clip_id = last.clip
    /\ last.action = "removed" =>
          ~\E v \in votes : v.user_id = last.uid /\ v.clip_id = last.clip

\* a vote taken back from a clip that keeps the vote of another user
C7_Witness ==
  /\ CastVoteDone /\ last.action = "removed"
  /\ \E v \in votes : v.clip_id = last.clip /\ v.user_id # last.uid

\* C8: once concurrent cast_vote calls of different voters have all
\* returned, every clip's vote_count is the number of votes on it and every
\* spot's owner is what the resolver gives for those counts.
C8_NoLostUpdate ==
  Quiescent =>
    /\ \A c \in DOMAIN clips : clips[c].vote_count = NumVotes(votes, c)
    /\ \A s \in Spots : Resolved(clips, s, owner[s])

\* C9: toggleVote, which writes the ledger without cast_vote, never leaves
\* a user with votes on two clips of one spot.
C9_BypassKeepsOneVote ==
  \A u \in Users, s \in Spots :
     \A v, w \in VotesInSpot(votes, clips, u, s) : v.clip_id = w.clip_id

\* C10: a clip's vote_count changes only together with the votes on the
\* clip, and a spot's owner only to a value _recalc_spot_owner can give: no
\* request writes either field directly.
C10_NoDirectWrite ==
  [][/\ \A c \in DOMAIN clips \cap DOMAIN clips' :
           clips'[c].vote_count # clips[c].vote_count =>
             NumVotes(votes', c) # NumVotes(votes, c)
     /\ \A s \in Spots :
           owner'[s] # owner[s] => owner'[s] \in OwnerChoices(clips', s)]_vars

\* the clips of spot s with the highest vote_count
TopClips(cl, s) ==
  {c \in ClipsOfSpot(cl, s) :
     \A d \in ClipsOfSpot(cl, s) : cl[d].vote_count <= cl[c].vote_count}

\* C11: tie-break: when several clips of a spot share the highest
\* vote_count (zero included), the owner is the uploader of one created no
\* later than the others, whatever the order of the votes before.
C11_TieBreak ==
  \A s \in Spots :
     Cardinality(TopClips(clips, s)) >= 2 =>
       \E c \in TopClips(clips, s) :
          /\ owner[s] = clips[c].user_id
          /\ \A d \in TopClips(clips, s) :
                clips[c].created_at <= clips[d].created_at

\* two clips of different uploaders tie at one vote each, the later clip
\* got its vote first, and at zero votes after a vote was taken back
C11_Witness ==
  \E c, d \in DOMAIN clips :
     /\ clips[c].spot_id = clips[d].spot_id
     /\ clips[c].user_id # clips[d].user_id
     /\ clips[c].created_at < clips[d].created_at
     /\ clips[c].vote_count = clips[d].vote_count
     /\ owner[clips[c].spot_id] = clips[c].user_id
     /\ \/ /\ clips[c].vote_count = 1
           /\ last.op = "cast_vote" /\ last.action = "added" /\ last.clip = c
        \/ /\ clips[c].vote_count = 0
           /\ last.op = "cast_vote" /\ last.action = "removed" /\ last.clip = d

\* C12: idempotent ownership: when _recalc_spot_owner runs twice in a row
\* for the same spot with nothing changed in between, the second run leaves
\* the owner the first run left
C12_RecalcIdempotent ==
  [][(/\ last.op = "recalc_owner"
      /\ last'.op = "recalc_owner"
      /\ clips' = clips
      /\ clips[last.clip].spot_id = clips[last'.clip].spot_id)
       => owner' = owner]_vars

\* the spots that have at least one clip
SpotsWithClips(cl) == {s \in Spots : ClipsOfSpot(cl, s) # {}}

\* the owners left by running _recalc_spot_owner once for each spot of S,
\* one run after the other, from the owners ow
RECURSIVE RecalcEach(_, _, _)
RecalcEach(cl, ow, S) ==
  IF S = {} THEN {ow}
  ELSE LET s == CHOOSE x \in S : TRUE
       IN  UNION {RecalcEach(cl, o, S \ {s}) : o \in RecalcOwnerResults(cl, ow, s)}

VotesGained(vs, ws, c) == {v \in vs \ ws : v.clip_id = c}

\* C14: vote count projector: every insert into votes raises the clip's
\* vote_count by exactly 1 (NULL counted as 0), every delete lowers it by 1
\* but not below 0, and a vote_count that is set is a non-negative integer
\* in every state
C14_Projector ==
  [][/\ \A c \in DOMAIN clips \cap DOMAIN clips' :
           LET gained == Cardinality(VotesGained(votes', votes, c))
               lost == Cardinality(VotesGained(votes, votes', c))
               old == IF clips[c].vote_count = NullCount THEN 0
                      ELSE clips[c].vote_count
           IN  /\ gained + lost <= 1
               /\ gained = 1 => clips'[c].vote_count = old + 1
               /\ lost = 1 =>
                    clips'[c].vote_count = IF old - 1 < 0 THEN 0 ELSE old - 1
     /\ \A c \in DOMAIN clips' :
           clips'[c].vote_count = NullCount \/ clips'[c].vote_count >= 0]_vars

\* C15: no partial state: a call of cast_vote changes no vote, no
\* vote_count and no owner before it commits with 'added', 'moved' or
\* 'removed'; a call that raises or is cancelled at any statement, also
\* between the DELETE and the INSERT of a move, leaves the caller's votes
\* and the target's vote_count as they were when the call started
C15_NoPartialState ==
  [][(tx[Session].pc # "idle" \/ tx'[Session].pc # "idle")
       => /\ ~(/\ tx[Session].pc = "commit"
               /\ tx'[Session].pc = "idle"
               /\ last'.action \in {"added", "moved", "removed"})
             => UNCHANGED <<clips, votes, owner>>
          /\ (tx'[Session].pc = "idle" /\ last'.action = "canceled"
              /\ last'.clip \in DOMAIN clips')
             => /\ {v \in votes' : v.user_id = last'.uid} = last'.uvotes0
                /\ clips'[last'.clip].vote_count = last'.count0]_vars

\* a move cancelled after its DELETE: the vote is still on the old clip
C15_Witness ==
  /\ last.action = "canceled"
  /\ last.held0 # {}
  /\ last.clip \notin last.held0
  /\ \A c \in last.held0 :
        \E v \in votes : v.clip_id = c /\ v.user_id = last.uid
  /\ \A c \in last.held0 : clips[c].vote_count >= 1
  /\ \A s \in Spots : owner[s] \in OwnerChoices(clips, s)

\* C16: cast_vote with the id of no clip raises 'Invalid clip_id' and
\* leaves votes, every vote_count and every owner unchanged
C16_InvalidClip ==
  [][\A u \in Users, c \in ClipIds \ DOMAIN clips :
        CastVote(u, c)
          => /\ last'.op = "cast_vote"
             /\ last'.action = "Invalid clip_id"
             /\ UNCHANGED <<clips, votes, owner>>]_vars

C16_Witness ==
  /\ last.op = "cast_vote"
  /\ last.action = "Invalid clip_id"
  /\ votes # {}

\* C17: cast_vote by a caller without identity (auth.uid() IS NULL) raises
\* 'Not authenticated' before it reads or writes votes, and leaves votes,
\* every vote_count and every owner unchanged
C17_NotAuthenticated ==
  [][\A c \in ClipIds :
        CastVote(NULL, c)
          => /\ last'.op = "cast_vote"
             /\ last'.action = "Not authenticated"
             /\ UNCHANGED <<clips, votes, owner, nextVote>>]_vars

C17_Witness ==
  /\ last.op = "cast_vote"
  /\ last.action = "Not authenticated"
  /\ votes # {}
  /\ \E c \in DOMAIN clips : clips[c].vote_count >= 1

\* C18: the new_vote_count a successful cast_vote(c) returns is c's
\* vote_count after the call's own insert or delete has been counted, which
\* is the number of votes on c when the call ends: one more than before for
\* 'added' and 'moved', one less for 'removed'
C18_ReturnedCount ==
  CastVoteDone =>
    /\ last.clip \in DOMAIN clips
    /\ last.count = clips[last.clip].vote_count
    /\ last.count = NumVotes(votes, last.clip)
    /\ last.count = IF last.action = "removed" THEN last.count0 - 1
                    ELSE last.count0 + 1

\* a vote moved to a clip that already had one
C18_Witness ==
  /\ CastVoteDone /\ last.action = "moved" /\ last.count = 2
  /\ \E c \in last.held0 : c \in DOMAIN clips /\ clips[c].vote_count = 0

\* the call of session p ends in this step with an error
EndsInError(p) ==
  /\ tx'[p].pc = "idle"
  /\ last'.op = "cast_vote"
  /\ last'.action \notin {"added", "moved", "removed"}

\* C19: votes never holds two rows with the same (clip_id, user_id), and
\* the INSERT of a pair that is already there fails with an error, leaving
\* votes and the clip's vote_count unchanged
C19_DuplicateVote ==
  [][/\ \A v, w \in votes' :
           (v.clip_id = w.clip_id /\ v.user_id = w.user_id) => v = w
     /\ \A p \in Procs :
           (/\ tx[p].pc = "ins"
            /\ tx'[p] # tx[p]
            /\ \E v \in ViewVotes(tx[p]) :
                  v.clip_id = tx[p].target /\ v.user_id = tx[p].uid)
             => /\ EndsInError(p)
                /\ UNCHANGED <<votes, clips>>]_vars

\* C20: the DELETE of a vote whose id is no longer in votes fails with an
\* error instead of reporting success, and changes no vote_count
C20_RemoveAbsentVote ==
  [][\A p \in Procs :
        (/\ tx[p].pc = "del"
         /\ tx'[p] # tx[p]
         /\ ~\E v \in ViewVotes(tx[p]) : v.id = tx[p].evid)
          => /\ EndsInError(p)
             /\ UNCHANGED clips]_vars

\* ------------------------------------------------------------------ mobs
\* the tables and variables of the vote ledger
voteVars == <<clips, votes, owner, nextClip, nextVote, now, tx>>

\* text is a sequence of characters
HexDigits ==
  <<"0", "1", "2", "3", "4", "5", "6", "7", "8", "9", "a", "b", "c", "d", "e", "f">>

\* upper() of SQL and toUpperCase() of the client, on the characters of a code
Upper(ch) ==
  CASE ch = "a" -> "A" [] ch = "b" -> "B" [] ch = "c" -> "C"
    [] ch = "d" -> "D" [] ch = "e" -> "E" [] ch = "f" -> "F"
    [] OTHER -> ch

UpperText(t) == [i \in 1..Len(t) |-> Upper(t[i])]

\* substr(t, from, count)
Substr(t, from, count) ==
  SubSeq(t, from, IF from + count - 1 > Len(t) THEN Len(t) ELSE from + count - 1)

\* trim() of the client: leading and trailing blanks removed
RECURSIVE Trim(_)
Trim(t) ==
  IF t = << >> THEN t
  ELSE IF Head(t) = " " THEN Trim(Tail(t))
  ELSE IF t[Len(t)] = " " THEN Trim(SubSeq(t, 1, Len(t) - 1))
  ELSE t

\* md5(random()::text): 32 hexadecimal digits in lower case; r names the
\* value random() drew, two draws of the same r give the same text
Md5Text(r) == [i \in 1..Md5Len |-> HexDigits[((9 + r + i) % 16) + 1]]

\* upper(substr(md5(random()::text), 1, 6))
InviteCodeOf(r) == UpperText(Substr(Md5Text(r), 1, CodeLen))

\* the values random() can draw
Randoms == 1..NumRandom

\* the invite codes in use
CodesOf(ms) == {ms[m].invite_code : m \in DOMAIN ms}

\* the mobs user u is a member of
MobsOf(mm, u) == {r.mob_id : r \in {x \in mm : x.user_id = u}}

\* the id of a new mob_members row (uuid_generate_v4: not the id of a row)
NewMemberId(mm) ==
  CHOOSE i \in 1..(Cardinality(mm) + 1) : \A x \in mm : x.id # i

\* add_mob_owner_as_member without its INSERT
AddMobOwnerAsMember_NoInsert(mm, m, u) == mm

\* add_mob_owner_as_member (AFTER INSERT ON mobs): INSERT INTO mob_members
\* (mob_id, user_id, joined_at) VALUES (NEW.id, NEW.owner_user_id, NOW())
\* ON CONFLICT (mob_id, user_id) DO NOTHING
AddMobOwnerAsMember(mm, m, u) ==
  IF \E x \in mm : x.mob_id = m /\ x.user_id = u THEN mm
  ELSE mm \cup {[id |-> NewMemberId(mm), mob_id |-> m, user_id |-> u]}

\* generate_invite_code of complete_schema_fixed.sql: one draw, returned
\* as it is
GenerateInviteCode == {InviteCodeOf(r) : r \in Randoms}

\* what loadUserMob leaves in currentMob: the mob of the user's membership
\* row when .single() finds exactly one row, else what it was
LoadedMob(mm, u, cur) ==
  IF Cardinality({x \in mm : x.user_id = u}) = 1
    THEN (CHOOSE x \in mm : x.user_id = u).mob_id
    ELSE cur

\* the outcome of a request of the mob screen: the handler, the user, the
\* mob, the alert shown, and the mobs the user was a member of before
MobOutcome(op, u, m, alert) ==
  Outcome(op, u, m, alert, NullCount, MobsOf(members, u), NullCount, {})

\* the screen of session p shows the outcome o, with currentMob cur
Show(p, o, cur) ==
  /\ screen' = [screen EXCEPT ![p].currentMob = cur, ![p].pc = "idle",
                              ![p].name = << >>, ![p].code = << >>]
  /\ last' = o
  /\ prev' = Remember(last)
  /\ UNCHANGED <<voteVars, profiles, board>>

\* INSERT INTO mobs (name, invite_code, owner_user_id) by session p with
\* the code it was given, and trigger_add_mob_owner in the same statement;
\* a code that is taken violates UNIQUE (invite_code)
InsertMob(p, name, code) ==
  LET u == screen[p].uid
      m == Cardinality(DOMAIN mobs) + 1
  IN  IF code \in CodesOf(mobs)
        THEN /\ UNCHANGED <<mobs, members>>
             /\ Show(p, MobOutcome("createMob", u, NULL, "Failed to create mob"),
                     screen[p].currentMob)
        ELSE /\ mobs' = Put(mobs, m, [name |-> name, invite_code |-> code,
                                      owner_user_id |-> u])
             /\ members' = AddMobOwnerAsMember(members, m, u)
             /\ Show(p, MobOutcome("createMob", u, m, "Success!"),
                     LoadedMob(members', u, m))

\* createMob of MyMobScreen (shown while currentMob is null): the name is
\* trimmed, generate_invite_code is called, the mob is inserted
CreateMob(p, typed) ==
  /\ screen[p].pc = "idle"
  /\ screen[p].currentMob = NULL
  /\ IF Trim(typed) = << >>
       THEN /\ UNCHANGED <<mobs, members>>
            /\ Show(p, MobOutcome("createMob", screen[p].uid, NULL,
                                  "Please enter a mob name"), NULL)
       ELSE \E code \in GenerateInviteCode : InsertMob(p, Trim(typed), code)

\* joinMob without the lookup of the mob: the membership is inserted for
\* whatever the lookup returned
JoinMobRows_NoLookup(typed, u) ==
  LET found == {m \in DOMAIN mobs : mobs[m].invite_code = UpperText(Trim(typed))}
      m == IF found = {} THEN NULL ELSE CHOOSE x \in found : TRUE
  IN  [alert |-> "Success!", mob |-> m,
       members |-> members \cup {[id |-> NewMemberId(members),
                                  mob_id |-> m, user_id |-> u]}]

\* joinMob: the mob with invite_code = inviteCode.trim().toUpperCase(), then
\* INSERT INTO mob_members (mob_id, user_id), which UNIQUE (mob_id, user_id)
\* refuses with 23505 when the user is in that mob
JoinMobRows(typed, u) ==
  LET found == {m \in DOMAIN mobs : mobs[m].invite_code = UpperText(Trim(typed))}
      m == CHOOSE x \in found : TRUE
  IN  IF Trim(typed) = << >>
        THEN [alert |-> "Please enter an invite code", mob |-> NULL,
              members |-> members]
      ELSE IF Cardinality(found) # 1
        THEN [alert |-> "Invalid invite code", mob |-> NULL, members |-> members]
      ELSE IF \E x \in members : x.mob_id = m /\ x.user_id = u
        THEN [alert |-> "You are already in a mob. Leave your current mob first.",
              mob |-> NULL, members |-> members]
      ELSE [alert |-> "Success!", mob |-> m,
            members |-> members \cup {[id |-> NewMemberId(members),
                                       mob_id |-> m, user_id |-> u]}]

\* joinMob of MyMobScreen (shown while currentMob is null)
JoinMob(p, typed) ==
  /\ screen[p].pc = "idle"
  /\ screen[p].currentMob = NULL
  /\ LET r == JoinMobRows(typed, screen[p].uid)
     IN  /\ members' = r.members
         /\ UNCHANGED mobs
         /\ Show(p, MobOutcome("joinMob", screen[p].uid, r.mob, r.alert),
                 IF r.mob = NULL THEN NULL
                 ELSE LoadedMob(r.members, screen[p].uid, r.mob))

\* LeaveMobRows that keeps the membership of a mob's owner
LeaveMobRows_KeepOwner(mm, u) ==
  {x \in mm : x.user_id # u \/ mobs[x.mob_id].owner_user_id = u}

\* the rows left by DELETE FROM mob_members WHERE user_id = u
LeaveMobRows(mm, u) == {x \in mm : x.user_id # u}

\* leaveMob of MyMobScreen (shown while currentMob is set): the delete,
\* then currentMob is cleared and 'Left the mob' shown
LeaveMob(p) ==
  /\ screen[p].pc = "idle"
  /\ screen[p].currentMob # NULL
  /\ members' = LeaveMobRows(members, screen[p].uid)
  /\ UNCHANGED mobs
  /\ Show(p, MobOutcome("leaveMob", screen[p].uid, screen[p].currentMob,
                        "Left the mob"), NULL)

\* loadUserMob: when the screen is opened or refreshed
LoadUserMob(p) ==
  /\ screen[p].pc = "idle"
  /\ UNCHANGED <<mobs, members>>
  /\ Show(p, MobOutcome("loadUserMob", screen[p].uid, NULL, "loaded"),
          LoadedMob(members, screen[p].uid, screen[p].currentMob))

\* what is typed into the name field: a name with blanks around it, blanks
\* only
TypedNames == {<<" ", "a", " ">>, <<" ">>}

\* what is typed into the invite code field: a code as generated, the same
\* in lower case with blanks around it, blanks only
TypedCodes ==
  {InviteCodeOf(r) : r \in Randoms}
    \cup {<<" ">> \o Substr(Md5Text(r), 1, CodeLen) \o <<" ">> : r \in Randoms}
    \cup {<<" ">>}

\* the sessions are devices on which users are signed in, two of them
\* possibly as the same user; no mob exists
InitTeam ==
  /\ clips = EmptyMap /\ votes = {} /\ owner = [s \in Spots |-> NULL]
  /\ nextClip = 1 /\ nextVote = 1 /\ now = 0
  /\ tx = [p \in Procs |-> IdleTx]
  /\ last = NoOp /\ prev = NoOp
  /\ mobs = EmptyMap
  /\ members = {}
  /\ profiles = [u \in Users |-> [username |-> NULL, display_name |-> NULL]]
  /\ \E f \in [Procs -> Users] :
        screen = [p \in Procs |-> [uid |-> f[p], currentMob |-> NULL,
                                   pc |-> "idle", name |-> << >>,
                                   code |-> << >>]]
  /\ board = << >>

\* the requests of the mob screens, one at a time
NextTeam ==
  \/ \E p \in Procs, t \in TypedNames : CreateMob(p, t)
  \/ \E p \in Procs, t \in TypedCodes : JoinMob(p, t)
  \/ \E p \in Procs : LeaveMob(p)
  \/ \E p \in Procs : LoadUserMob(p)

SpecTeam == InitTeam /\ [][NextTeam]_vars

\* C21: one team per user: whatever createMob, joinMob and leaveMob calls
\* were made, each user is a member of at most one mob
C21_OneTeamPerUser ==
  \A u \in Users : Cardinality(MobsOf(members, u)) <= 1

\* C22: joinMob with the code of a mob by a user who is a member of a mob,
\* that one or another one, fails with the 'already in a mob' error and
\* leaves mob_members unchanged
C22_JoinWhenMember ==
  [][\A p \in Procs, t \in TypedCodes :
        (/\ JoinMob(p, t)
         /\ UpperText(Trim(t)) \in CodesOf(mobs)
         /\ MobsOf(members, screen[p].uid) # {})
          => /\ last'.action = "You are already in a mob. Leave your current mob first."
             /\ members' = members]_vars

\* C23: joinMob with a code that is the invite code of no mob shows
\* 'Invalid invite code' (a blank code: 'Please enter an invite code') and
\* inserts no membership
C23_InvalidInviteCode ==
  [][\A p \in Procs, t \in TypedCodes :
        (JoinMob(p, t) /\ UpperText(Trim(t)) \notin CodesOf(mobs))
          => /\ last'.op = "joinMob"
             /\ last'.action = IF Trim(t) = << >>
                                 THEN "Please enter an invite code"
                                 ELSE "Invalid invite code"
             /\ UNCHANGED <<members, mobs>>
             /\ screen'[p].currentMob = NULL]_vars

\* a code of no mob entered while mobs with other codes exist
C23_Witness ==
  /\ last.op = "joinMob"
  /\ last.action = "Invalid invite code"
  /\ mobs # EmptyMap
  /\ members # {}

\* C24: createMob that succeeds inserts the mob and, in the same statement,
\* exactly one membership of its owner in it, and changes no other row; a
\* createMob that fails inserts neither; add_mob_owner_as_member applied
\* to a membership that is present changes nothing, and mob_members never
\* holds two rows for one (mob_id, user_id)
C24_CreateAddsOwner ==
  [][/\ \A p \in Procs, t \in TypedNames :
           CreateMob(p, t) =>
             IF last'.action = "Success!"
               THEN LET m == last'.clip
                        u == screen[p].uid
                    IN  /\ DOMAIN mobs' = DOMAIN mobs \cup {m}
                        /\ m \notin DOMAIN mobs
                        /\ mobs'[m].owner_user_id = u
                        /\ \A k \in DOMAIN mobs : mobs'[k] = mobs[k]
                        /\ members \subseteq members'
                        /\ Cardinality(members' \ members) = 1
                        /\ \A x \in members' \ members :
                              x.mob_id = m /\ x.user_id = u
               ELSE UNCHANGED <<mobs, members>>
     /\ \A x \in members' :
           AddMobOwnerAsMember(members', x.mob_id, x.user_id) = members'
     /\ \A x, y \in members' :
           (x.mob_id = y.mob_id /\ x.user_id = y.user_id) => x = y]_vars

\* a mob created while another mob and its members exist
C24_Witness ==
  /\ last.op = "createMob"
  /\ last.action = "Success!"
  /\ Cardinality(DOMAIN mobs) >= 2
  /\ \E x \in members : x.mob_id = last.clip /\ x.user_id = last.uid
  /\ \E x \in members : x.mob_id # last.clip /\ x.user_id # last.uid

CreateMobBegin(p, typed) ==
  /\ screen[p].pc = "idle"
  /\ screen[p].currentMob = NULL
  /\ IF Trim(typed) = << >>
       THEN /\ UNCHANGED <<mobs, members>>
            /\ Show(p, MobOutcome("createMob", screen[p].uid, NULL,
                                  "Please enter a mob name"), NULL)
       ELSE /\ \E code \in GenerateInviteCode :
                 screen' = [screen EXCEPT ![p].pc = "insert",
                                          ![p].name = Trim(typed),
                                          ![p].code = code]
            /\ UNCHANGED <<mobs, members, last, prev, voteVars, profiles, board>>

\* createMob from the answer of the rpc on: the INSERT INTO mobs with the
\* code that was returned, then the alert
CreateMobInsert(p) ==
  /\ screen[p].pc = "insert"
  /\ InsertMob(p, screen[p].name, screen[p].code)

\* the requests of the mob screens, those of createMob interleaved with the
\* requests of the other session
NextCodes ==
  \/ \E p \in Procs, t \in TypedNames : CreateMobBegin(p, t)
  \/ \E p \in Procs : CreateMobInsert(p)
  \/ \E p \in Procs : LeaveMob(p)
  \/ \E p \in Procs : LoadUserMob(p)

SpecCodes == InitTeam /\ [][NextCodes]_vars

\* C26: the code generate_invite_code returns has 6 characters and is the
\* invite_code of no mob that exists when it returns
C26_ReturnedCodeUnused ==
  [][\A p \in Procs :
        (screen[p].pc = "idle" /\ screen'[p].pc = "insert")
          => /\ Len(screen'[p].code) = CodeLen
             /\ screen'[p].code \notin CodesOf(mobs')]_vars

\* --------------------------- generate_invite_code with the collision check
\* createMob up to the call of rpc('generate_invite_code'), the function
\* being the one of missing_functions_and_tables.sql: a blank name is
\* refused, else the function starts, its variable code not yet assigned
CreateMobCall(p, typed) ==
  /\ screen[p].pc = "idle"
  /\ screen[p].currentMob = NULL
  /\ IF Trim(typed) = << >>
       THEN /\ UNCHANGED <<mobs, members>>
            /\ Show(p, MobOutcome("createMob", screen[p].uid, NULL,
                                  "Please enter a mob name"), NULL)
       ELSE /\ screen' = [screen EXCEPT ![p].pc = "gen",
                                        ![p].name = Trim(typed),
                                        ![p].code = << >>]
            /\ UNCHANGED <<mobs, members, last, prev, voteVars, profiles, board>>

\* one turn of the loop of generate_invite_code, random() drawing r:
\* code := upper(substr(md5(random()::text), 1, 6)); select count(*) into
\* exists_check from mobs where invite_code = code; if exists_check = 0
\* then return code; else the loop goes on
GenerateInviteCodeTurn(p, r) ==
  /\ screen[p].pc = "gen"
  /\ LET code == InviteCodeOf(r)
         exists_check ==
           Cardinality({m \in DOMAIN mobs : mobs[m].invite_code = code})
     IN  screen' = [screen EXCEPT
                      ![p].code = code,
                      ![p].pc = IF exists_check = 0 THEN "insert" ELSE "gen"]
  /\ UNCHANGED <<mobs, members, last, prev, voteVars, profiles, board>>

\* the requests of the mob screens with the looping generate_invite_code,
\* interleaved turn by turn and request by request
NextLoop ==
  \/ \E p \in Procs, t \in TypedNames : CreateMobCall(p, t)
  \/ \E p \in Procs, r \in Randoms : GenerateInviteCodeTurn(p, r)
  \/ \E p \in Procs : CreateMobInsert(p)
  \/ \E p \in Procs : LeaveMob(p)
  \/ \E p \in Procs : LoadUserMob(p)

SpecLoop == InitTeam /\ [][NextLoop]_vars

\* C27: whatever the interleaving of concurrent createMob calls, the code
\* handed to a caller differs from the codes handed to the other callers
\* and from the codes of the mobs, no two mobs have the same invite_code,
\* and no INSERT of a createMob fails
C27_ConcurrentCreations ==
  [][/\ \A p \in Procs :
           (screen[p].pc = "gen" /\ screen'[p].pc = "insert")
             => /\ screen'[p].code \notin CodesOf(mobs)
                /\ \A q \in Procs \ {p} :
                      screen[q].pc = "insert" => screen[q].code # screen'[p].code
     /\ \A m, k \in DOMAIN mobs' :
           mobs'[m].invite_code = mobs'[k].invite_code => m = k
     /\ \A p \in Procs : CreateMobInsert(p) => last'.action = "Success!"]_vars

\* a turn of the loop in which generate_invite_code returns
GenerateInviteCodeReturn(p) ==
  \E r \in Randoms :
     GenerateInviteCodeTurn(p, r) /\ screen'[p].pc = "insert"

\* the mobs screens are opened when mobs whose members have left hold the
\* codes of some of the values random() can draw, of all of them possibly
InitCodesTaken ==
  /\ clips = EmptyMap /\ votes = {} /\ owner = [s \in Spots |-> NULL]
  /\ nextClip = 1 /\ nextVote = 1 /\ now = 0
  /\ tx = [p \in Procs |-> IdleTx]
  /\ last = NoOp /\ prev = NoOp
  /\ \E n \in 0..NumRandom, u \in Users :
        mobs = [m \in 1..n |-> [name |-> <<"a">>, invite_code |-> InviteCodeOf(m),
                                owner_user_id |-> u]]
  /\ members = {}
  /\ profiles = [u \in Users |-> [username |-> NULL, display_name |-> NULL]]
  /\ \E f \in [Procs -> Users] :
        screen = [p \in Procs |-> [uid |-> f[p], currentMob |-> NULL,
                                   pc |-> "idle", name |-> << >>,
                                   code |-> << >>]]
  /\ board = << >>

\* the createMob calls of the sessions, turn by turn and request by request
NextCreate ==
  \/ \E p \in Procs, t \in TypedNames : CreateMobCall(p, t)
  \/ \E p \in Procs, r \in Randoms : GenerateInviteCodeTurn(p, r)
  \/ \E p \in Procs : CreateMobInsert(p)

\* the call of session Session goes on turning while it has not returned,
\* and random() is fair to it: when a draw that makes the function return
\* is possible again and again, it is made at some time
SpecLoopFair ==
  /\ InitCodesTaken
  /\ [][NextCreate]_vars
  /\ WF_vars(\E r \in Randoms : GenerateInviteCodeTurn(Session, r))
  /\ SF_vars(GenerateInviteCodeReturn(Session))

\* C28: generate_invite_code terminates: its loop is bounded, so a call
\* that has started returns at some time (and when a code is unused, with
\* such a code)
C28_Terminates ==
  (screen[Session].pc = "gen") ~> (screen[Session].pc # "gen")

\* ------------------------------------------------------------ leaderboard
\* text is compared through its rank in the collation: equal ranks are
\* equal texts. The names users can have
Names == {2 * i - 1 : i \in 1..NumNames}

\* p.id::text: the text of a user's id, which is the text of no other id
\* and of no name
IdText(u) == 2 * u

Min(a, b) == IF a < b THEN a ELSE b

\* SpotsOwned with the join condition s.owner_user_id = p.id left out
SpotsOwned_AnyProfile(own, u) ==
  Cardinality({s \in Spots : own[s] # NULL})

\* COUNT(s.id) of the spots joined to the profile of u:
\* s.owner_user_id = p.id AND s.owner_user_id IS NOT NULL
SpotsOwned(own, u) ==
  Cardinality({s \in Spots : own[s] = u /\ own[s] # NULL})

\* COALESCE(a, b, c): the first argument that is not null
CoalesceText(a, b, c) == IF a # NULL THEN a ELSE IF b # NULL THEN b ELSE c

\* the second sort key with username only and nulls after all names
SortKey_UsernameOnly(pr, u) ==
  IF pr[u].username # NULL THEN pr[u].username ELSE 2 * NumNames + IdText(u)

\* the second sort key: COALESCE(p.username, p.display_name, p.id::text)
SortKey(pr, u) == CoalesceText(pr[u].username, pr[u].display_name, IdText(u))

\* the groups without the HAVING clause
Ranked_NoHaving(own) == Users

\* the groups that pass HAVING COALESCE(COUNT(s.id), 0) > 0
Ranked(own) == {u \in Users : SpotsOwned(own, u) > 0}

\* ORDER BY spots_owned DESC, COALESCE(...) ASC puts a before b
SortsBefore(own, pr, a, b) ==
  \/ SpotsOwned(own, a) > SpotsOwned(own, b)
  \/ /\ SpotsOwned(own, a) = SpotsOwned(own, b)
     /\ SortKey(pr, a) < SortKey(pr, b)

\* the orders the sort can produce: rows equal in both keys come in any
\* order
LeaderboardOrders(own, pr) ==
  LET R == Ranked(own)
      n == Cardinality(R)
  IN  {q \in [1..n -> R] :
         /\ \A i, j \in 1..n : q[i] = q[j] => i = j
         /\ \A i, j \in 1..n : i < j => ~SortsBefore(own, pr, q[j], q[i])}

\* the row SELECTed for the group of u
LeaderboardRow(own, pr, u) ==
  [id |-> u, username |-> pr[u].username, display_name |-> pr[u].display_name,
   spots_owned |-> SpotsOwned(own, u)]

\* get_leaderboard(limit_count): a negative LIMIT is an error, else the
\* first limit_count rows of the sorted groups are returned
GetLeaderboard(limit) ==
  /\ IF limit < 0
       THEN /\ last' = Raise("get_leaderboard", "LIMIT must not be negative")
            /\ UNCHANGED board
       ELSE /\ \E q \in LeaderboardOrders(owner, profiles) :
                 board' = [i \in 1..Min(limit, Len(q)) |->
                             LeaderboardRow(owner, profiles, q[i])]
            /\ last' = Outcome("get_leaderboard", NULL, NULL, "rows", limit,
                               {}, NullCount, {})
  /\ prev' = Remember(last)
  /\ UNCHANGED <<voteVars, mobs, members, profiles, screen>>

\* the profiles a database can hold: username is UNIQUE where it is not
\* null, display_name is any name or null
ProfileTables ==
  {pr \in [Users -> [username : Names \cup {NULL},
                     display_name : Names \cup {NULL}]] :
     \A u, v \in Users :
        (pr[u].username = pr[v].username /\ pr[u].username # NULL) => u = v}

\* the limits get_leaderboard is called with
Limits == -1..(NumUsers + 1)

\* any owners of the spots and any profiles; nothing read yet
InitBoard ==
  /\ clips = EmptyMap /\ votes = {}
  /\ owner \in [Spots -> Users \cup {NULL}]
  /\ nextClip = 1 /\ nextVote = 1 /\ now = 0
  /\ tx = [p \in Procs |-> IdleTx]
  /\ last = NoOp /\ prev = NoOp
  /\ mobs = EmptyMap
  /\ members = {}
  /\ profiles \in ProfileTables
  /\ screen = [p \in Procs |-> [uid |-> NULL, currentMob |-> NULL,
                                 pc |-> "idle", name |-> << >>,
                                 code |-> << >>]]
  /\ board = << >>

NextBoard == \E limit \in Limits : GetLeaderboard(limit)

SpecBoard == InitBoard /\ [][NextBoard]_vars

\* C29 as stated: the users in the result of get_leaderboard(l), l >= 1,
\* are exactly the users who own at least one spot, each with the number
\* of spots owned by that user
C29_ExactlyTheOwners ==
  [][\A l \in Limits :
        (GetLeaderboard(l) /\ l >= 1)
          => /\ {board'[i].id : i \in DOMAIN board'}
                  = {u \in Users : \E s \in Spots : owner[s] = u}
             /\ \A i \in DOMAIN board' :
                   board'[i].spots_owned
                     = Cardinality({s \in Spots : owner[s] = board'[i].id})]_vars

\* C29: every row of the result of get_leaderboard(l), l >= 0, is a user
\* who owns at least one spot, with the number of spots owned by that
\* user; no user has two rows; a user who owns no spot has no row; the
\* result has l rows, or a row for every owner when there are fewer than l
C29_EntriesAreOwners ==
  [][\A l \in Limits :
        (GetLeaderboard(l) /\ l >= 0)
          => LET owners == {u \in Users : \E s \in Spots : owner[s] = u}
             IN  /\ \A i \in DOMAIN board' :
                       /\ board'[i].id \in owners
                       /\ board'[i].spots_owned >= 1
                       /\ board'[i].spots_owned
                            = Cardinality({s \in Spots : owner[s] = board'[i].id})
                 /\ \A i, j \in DOMAIN board' :
                       board'[i].id = board'[j].id => i = j
                 /\ Len(board') = Min(l, Cardinality(owners))]_vars

\* a user owns every spot and is the only row, though more rows were asked
\* for: the user who owns no spot is left out
C29_Witness ==
  /\ last.op = "get_leaderboard"
  /\ last.count = NumUsers
  /\ Len(board) = 1
  /\ board[1].spots_owned = NumSpots
  /\ \A s \in Spots : owner[s] = board[1].id

CharRank(ch) == CHOOSE i \in 1..Len(HexDigits) : HexDigits[i] = ch

\* text a sorts before text b: the first character that differs decides,
\* a text sorts after its proper prefixes
RECURSIVE TextLess(_, _)
TextLess(a, b) ==
  IF b = << >> THEN FALSE
  ELSE IF a = << >> THEN TRUE
  ELSE IF Head(a) = Head(b) THEN TextLess(Tail(a), Tail(b))
  ELSE CharRank(Head(a)) < CharRank(Head(b))

\* the spots joined to mob m without its members: every owned spot
MobSpots_AnyOwner(own, mm, m) == {s \in Spots : own[s] # NULL}

\* the spots joined to mob m: LEFT JOIN mob_members mm ON mm.mob_id = m.id
\* LEFT JOIN spots s ON s.owner_user_id = mm.user_id
MobSpots(own, mm, m) ==
  {s \in Spots : \E x \in mm : x.mob_id = m /\ own[s] = x.user_id}

\* COUNT(DISTINCT mm.user_id) of the group of mob m
MemberCount(mm, m) == Cardinality({x.user_id : x \in {y \in mm : y.mob_id = m}})

\* the groups that pass HAVING COUNT(DISTINCT s.id) > 0
MobRanked(ms, mm, own) == {m \in DOMAIN ms : MobSpots(own, mm, m) # {}}

\* the order by total_spots_owned DESC alone
MobSortsBefore_CountOnly(ms, mm, own, a, b) ==
  Cardinality(MobSpots(own, mm, a)) > Cardinality(MobSpots(own, mm, b))

\* ORDER BY total_spots_owned DESC, m.name ASC puts mob a before mob b
MobSortsBefore(ms, mm, own, a, b) ==
  \/ Cardinality(MobSpots(own, mm, a)) > Cardinality(MobSpots(own, mm, b))
  \/ /\ Cardinality(MobSpots(own, mm, a)) = Cardinality(MobSpots(own, mm, b))
     /\ TextLess(ms[a].name, ms[b].name)

\* the orders the sort can produce: rows equal in both keys come in any
\* order
MobLeaderboardOrders(ms, mm, own) ==
  LET R == MobRanked(ms, mm, own)
      n == Cardinality(R)
  IN  {q \in [1..n -> R] :
         /\ \A i, j \in 1..n : q[i] = q[j] => i = j
         /\ \A i, j \in 1..n : i < j => ~MobSortsBefore(ms, mm, own, q[j], q[i])}

\* the row SELECTed for the group of mob m
MobLeaderboardRow(ms, mm, own, m) ==
  [mob_id |-> m, mob_name |-> ms[m].name,
   total_spots_owned |-> Cardinality(MobSpots(own, mm, m)),
   member_count |-> MemberCount(mm, m)]

\* get_mob_leaderboard(limit_count): a negative LIMIT is an error, else
\* the first limit_count rows of the sorted groups are returned
GetMobLeaderboard(limit) ==
  /\ IF limit < 0
       THEN /\ last' = Raise("get_mob_leaderboard", "LIMIT must not be negative")
            /\ UNCHANGED board
       ELSE /\ \E q \in MobLeaderboardOrders(mobs, members, owner) :
                 board' = [i \in 1..Min(limit, Len(q)) |->
                             MobLeaderboardRow(mobs, members, owner, q[i])]
            /\ last' = Outcome("get_mob_leaderboard", NULL, NULL, "rows", limit,
                               {}, NullCount, {})
  /\ prev' = Remember(last)
  /\ UNCHANGED <<voteVars, mobs, members, profiles, screen>>

\* the names mobs were created with
MobNames == {<<"a">>, <<"b">>}

\* the mobs and memberships a database can hold: up to NumUsers mobs, each
\* with a name, its own code and an owner, and any memberships of the
\* users in them (the owner may have left, a user may be in two mobs)
MobTables ==
  UNION {[1..k -> [name : MobNames, owner_user_id : Users]] : k \in 0..NumUsers}

MobRowsOf(t) ==
  [m \in DOMAIN t |-> [name |-> t[m].name, invite_code |-> InviteCodeOf(m),
                       owner_user_id |-> t[m].owner_user_id]]

MemberRowsOf(pairs) ==
  {[id |-> (pr[1] - 1) * NumUsers + pr[2], mob_id |-> pr[1], user_id |-> pr[2]] :
     pr \in pairs}

\* any owners of the spots, any mobs and memberships; one device, signed
\* in as any user, its screen not yet loaded; nothing read yet
InitMobBoard ==
  /\ clips = EmptyMap /\ votes = {}
  /\ owner \in [Spots -> Users \cup {NULL}]
  /\ nextClip = 1 /\ nextVote = 1 /\ now = 0
  /\ tx = [p \in Procs |-> IdleTx]
  /\ last = NoOp /\ prev = NoOp
  /\ \E t \in MobTables :
        /\ mobs = MobRowsOf(t)
        /\ \E pairs \in SUBSET ((DOMAIN t) \X Users) : members = MemberRowsOf(pairs)
  /\ profiles = [u \in Users |-> [username |-> NULL, display_name |-> NULL]]
  /\ \E u \in Users :
        screen = [p \in Procs |-> [uid |-> IF p = Session THEN u ELSE NULL,
                                   currentMob |-> NULL,
                                   pc |-> "idle", name |-> << >>,
                                   code |-> << >>]]
  /\ board = << >>

\* the device joins and leaves mobs, and the leaderboard is read
NextMobBoard ==
  \/ \E t \in GenerateInviteCode : JoinMob(Session, t)
  \/ LeaveMob(Session)
  \/ LoadUserMob(Session)
  \/ \E limit \in Limits : GetMobLeaderboard(limit)

SpecMobBoard == InitMobBoard /\ [][NextMobBoard]_vars

\* C31 as stated: the mobs in the result of get_mob_leaderboard(l), l >= 1,
\* are exactly the mobs with a spot owned by one of their current members,
\* each with the number of distinct spots owned by its members and the
\* number of its members
C31_ExactlyTheOwningMobs ==
  [][\A l \in Limits :
        (GetMobLeaderboard(l) /\ l >= 1)
          => LET spotsOf(m) ==
                   {s \in Spots : \E x \in members :
                                     x.mob_id = m /\ x.user_id = owner[s]}
             IN  /\ {board'[i].mob_id : i \in DOMAIN board'}
                      = {m \in DOMAIN mobs : spotsOf(m) # {}}
                 /\ \A i \in DOMAIN board' :
                       /\ board'[i].total_spots_owned
                            = Cardinality(spotsOf(board'[i].mob_id))
                       /\ board'[i].member_count
                            = Cardinality({x \in members :
                                             x.mob_id = board'[i].mob_id})]_vars

\* C31: every row of the result of get_mob_leaderboard(l), l >= 0, is a
\* mob with at least one spot owned by one of its members at the time of
\* the read, with the number of distinct spots owned by its members and
\* the number of its members; no mob has two rows; the result has l rows,
\* or a row for every such mob when there are fewer than l
C31_EntriesAreOwningMobs ==
  [][\A l \in Limits :
        (GetMobLeaderboard(l) /\ l >= 0)
          => LET spotsOf(m) ==
                   {s \in Spots : \E x \in members :
                                     x.mob_id = m /\ x.user_id = owner[s]}
                 owning == {m \in DOMAIN mobs : spotsOf(m) # {}}
             IN  /\ \A i \in DOMAIN board' :
                       /\ board'[i].mob_id \in owning
                       /\ board'[i].total_spots_owned >= 1
                       /\ board'[i].total_spots_owned
                            = Cardinality(spotsOf(board'[i].mob_id))
                       /\ board'[i].member_count
                            = Cardinality({x \in members :
                                             x.mob_id = board'[i].mob_id})
                 /\ \A i, j \in DOMAIN board' :
                       board'[i].mob_id = board'[j].mob_id => i = j
                 /\ Len(board') = Min(l, Cardinality(owning))]_vars

\* read after a joinMob: the first row is a mob of two members, one of
\* them inserted by joinMob, which owns every spot; a mob whose members
\* own nothing is left out
C31_Witness ==
  /\ last.op = "get_mob_leaderboard"
  /\ Len(board) = 1
  /\ Cardinality(DOMAIN mobs) = 2
  /\ board[1].member_count = 2
  /\ board[1].total_spots_owned = NumSpots
  /\ \E x \in members :
        /\ x.mob_id = board[1].mob_id
        /\ x.user_id = screen[Session].uid
        /\ x.id # (x.mob_id - 1) * NumUsers + x.user_id
  /\ screen[Session].currentMob = board[1].mob_id

\* C32: the result of get_mob_leaderboard(l), l >= 0, is the first l rows
\* of an order of the mobs with an owned spot by total_spots_owned
\* descending, then mob name ascending: its rows are in that order, no mob
\* left out stands before a row, and it has l rows or all of them
C32_SortedByName ==
  [][\A l \in Limits :
        (GetMobLeaderboard(l) /\ l >= 0)
          => LET count(m) ==
                   Cardinality({s \in Spots : \E x \in members :
                                   x.mob_id = m /\ x.user_id = owner[s]})
                 owning == {m \in DOMAIN mobs : count(m) > 0}
                 mayPrecede(a, b) ==
                   \/ count(a) > count(b)
                   \/ count(a) = count(b) /\ ~TextLess(mobs[b].name, mobs[a].name)
             IN  /\ Len(board') = Min(l, Cardinality(owning))
                 /\ \A i \in DOMAIN board' :
                       board'[i].mob_name = mobs[board'[i].mob_id].name
                 /\ \A i, j \in DOMAIN board' :
                       i < j => mayPrecede(board'[i].mob_id, board'[j].mob_id)
                 /\ \A i \in DOMAIN board' :
                       \A m \in owning \ {board'[k].mob_id : k \in DOMAIN board'} :
                          mayPrecede(board'[i].mob_id, m)]_vars

\* two rows of equal total_spots_owned: the mob created later stands first
\* because of its name
C32_Witness ==
  /\ last.op = "get_mob_leaderboard"
  /\ Len(board) = 2
  /\ board[1].total_spots_owned = board[2].total_spots_owned
  /\ TextLess(board[1].mob_name, board[2].mob_name)
  /\ board[1].mob_id > board[2].mob_id

\* ------------------------------------------------------- clip moderation
\* delete_clip_permanently(target_clip_id), which any authenticated user
\* may call: the flags of the clip are deleted (not among the tables
\* here), then DELETE FROM public.clips WHERE id = target_clip_id, which
\* deletes no row and raises nothing when c is the id of no clip
DeleteClipPermanently(u, c) ==
  IF c \in DOMAIN clips
    THEN DeleteClipRow("delete_clip_permanently", u, c)
    ELSE /\ last' = Outcome("delete_clip_permanently", u, c, "none",
                            NullCount, {}, NullCount, {})
         /\ prev' = Remember(last)
         /\ UNCHANGED <<clips, votes, owner, nextClip, nextVote, now, tx>>
         /\ UNCHANGED teamVars

\* votes, uploads, and deletes of clips by their uploaders and through
\* delete_clip_permanently, one operation at a time
NextDelete ==
  \/ Next
  \/ \E u \in Users, c \in ClipIds : DeleteClipPermanently(u, c)

SpecDelete == Init /\ [][NextDelete]_vars

\* C33: when a clip has been deleted, by its uploader or through
\* delete_clip_permanently, no vote on it is left and, in the same step,
\* the owner of its spot is the uploader of a clip that is first among
\* the remaining clips of the spot by vote_count descending, created_at
\* ascending, or null when none remains
C33_ClipDeleted ==
  [][\A c \in DOMAIN clips :
        c \notin DOMAIN clips'
          => LET s == clips[c].spot_id
                 rest == {d \in DOMAIN clips' : clips'[d].spot_id = s}
             IN  /\ \A v \in votes' : v.clip_id # c
                 /\ IF rest = {} THEN owner'[s] = NULL
                    ELSE \E d \in rest :
                           /\ owner'[s] = clips'[d].user_id
                           /\ \A e \in rest :
                                \/ CountRank(clips'[d].vote_count)
                                     > CountRank(clips'[e].vote_count)
                                \/ /\ CountRank(clips'[d].vote_count)
                                        = CountRank(clips'[e].vote_count)
                                   /\ clips'[d].created_at <= clips'[e].created_at]_vars

\* a clip with a vote was deleted through delete_clip_permanently; of the
\* two clips uploaded one is left, whose uploader owns its spot, and the
\* other spot has no owner
C33_Witness ==
  /\ last.op = "delete_clip_permanently"
  /\ last.count0 >= 1
  /\ nextClip = 3
  /\ \E d \in DOMAIN clips :
        /\ DOMAIN clips = {d}
        /\ owner[clips[d].spot_id] = clips[d].user_id
        /\ \A s \in Spots \ {clips[d].spot_id} : owner[s] = NULL
        /\ \A v \in votes : v.clip_id = d

\* C34: cast_vote on a clip of spot t leaves the votes on the clips of
\* every other spot, the rows of those clips and the owners of the other
\* spots as they were, and leaves the votes of the other users in t as
\* they were
C34_SpotIndependence ==
  [][\A u \in Users \cup {NULL}, c \in ClipIds :
        (CastVote(u, c) /\ c \in DOMAIN clips)
          => LET t == clips[c].spot_id
                 elsewhere(v) == clips[v.clip_id].spot_id # t \/ v.user_id # u
             IN  /\ DOMAIN clips' = DOMAIN clips
                 /\ \A v \in votes \cup votes' : v.clip_id \in DOMAIN clips
                 /\ {v \in votes' : elsewhere(v)} = {v \in votes : elsewhere(v)}
                 /\ \A d \in DOMAIN clips :
                       clips[d].spot_id # t => clips'[d] = clips[d]
                 /\ \A s \in Spots \ {t} : owner'[s] = owner[s]]_vars

\* a vote was added in a spot where another user has a vote, by a user who
\* keeps a vote in another spot
C34_Witness ==
  /\ last.op = "cast_vote"
  /\ last.action = "added"
  /\ last.clip \in DOMAIN clips
  /\ \E v \in votes : v.clip_id = last.clip /\ v.user_id = last.uid
  /\ \E v \in votes : v.clip_id = last.clip /\ v.user_id # last.uid
  /\ \E v \in votes :
        /\ v.user_id = last.uid
        /\ clips[v.clip_id].spot_id # clips[last.clip].spot_id

\* ------------------------------------------------------ storage failures
\* what a handler tells its caller when a request to the database may end
\* in an error: failed names the request that failed ("none": no request
\* did), success is whether the caller is told that the operation went
\* well (a success alert, success: true, or no error shown at all)
StorageOutcome(op, u, c, alert, failed, success) ==
  Outcome(op, u, c, alert, NullCount, {}, NullCount, {})
    @@ [failed |-> failed, success |-> success]

\* the caller's vote on clip c, which toggleVote and vote look up first
OwnVoteOn(u, c) == {v \in votes : v.clip_id = c /\ v.user_id = u}

\* the request of a vote toggle that can fail with fail: the lookup, the
\* DELETE when a vote was found, the INSERT when none was, the read of
\* vote_count afterwards
FailureApplies(fail, u, c) ==
  \/ fail \in {"none", "select", "count"}
  \/ fail = "delete" /\ OwnVoteOn(u, c) # {}
  \/ fail = "insert" /\ OwnVoteOn(u, c) = {}

\* the writes of a vote toggle whose DELETE or INSERT went through, with
\* the triggers of the votes table
ToggleWrites(u, c) ==
  /\ nextVote <= MaxVotes
  /\ LET base == [IdleTx EXCEPT !.uid = u, !.target = c]
         start == IF OwnVoteOn(u, c) = {}
                    THEN {[base EXCEPT !.pc = "ins", !.action = "added"]}
                    ELSE {[base EXCEPT !.pc = "del", !.action = "removed",
                                       !.evid = v.id, !.evclip = c] :
                            v \in OwnVoteOn(u, c)}
     IN \E t0 \in start : \E t \in RunStatements(t0) :
          /\ Finish(t)
          /\ nextVote' = nextVote + Cardinality(t.insVotes)

\* toggleVote(clipId) of utils/voting.ts when the request fail ends in an
\* error: an error of the lookup, of the DELETE or of the INSERT is
\* returned as success: false; an error of the read of vote_count is
\* returned as success: true with an error text and no newVoteCount
ToggleVoteRequests(u, c, fail) ==
  /\ c \in DOMAIN clips
  /\ FailureApplies(fail, u, c)
  /\ IF fail \in {"select", "delete", "insert"}
       THEN /\ UNCHANGED <<clips, votes, owner, nextVote>>
            /\ last' = StorageOutcome("toggleVote", u, c,
                          CASE fail = "select" -> "Vote check failed"
                            [] fail = "delete" -> "Failed to remove vote"
                            [] OTHER -> "Failed to add vote",
                          fail, FALSE)
       ELSE /\ ToggleWrites(u, c)
            /\ last' = StorageOutcome("toggleVote", u, c,
                          IF fail = "count"
                            THEN "Vote recorded but failed to get updated count"
                            ELSE "Vote recorded",
                          fail, TRUE)
  /\ prev' = Remember(last)
  /\ UNCHANGED <<nextClip, now, tx>>
  /\ UNCHANGED teamVars

\* vote(clipId) of SpotScreen.tsx when the request fail ends in an error:
\* the results of the DELETE and of the INSERT are not looked at, no
\* request throws, and the clips are loaded again whatever happened
VoteRequests(u, c, fail) ==
  /\ c \in DOMAIN clips
  /\ fail \in {"none", "delete", "insert"}
  /\ FailureApplies(fail, u, c)
  /\ IF fail = "none"
       THEN ToggleWrites(u, c)
       ELSE UNCHANGED <<clips, votes, owner, nextVote>>
  /\ last' = StorageOutcome("vote", u, c, "clips loaded", fail, TRUE)
  /\ prev' = Remember(last)
  /\ UNCHANGED <<nextClip, now, tx>>
  /\ UNCHANGED teamVars

\* leaveMob of MyMobScreen when the request fail ends in an error: the
\* result of the DELETE is not looked at, currentMob is cleared and
\* 'Left the mob' is shown
LeaveMobRequests(p, fail) ==
  /\ screen[p].pc = "idle"
  /\ screen[p].currentMob # NULL
  /\ fail \in {"none", "delete"}
  /\ members' = IF fail = "none" THEN LeaveMobRows(members, screen[p].uid)
                ELSE members
  /\ UNCHANGED mobs
  /\ Show(p, StorageOutcome("leaveMob", screen[p].uid, screen[p].currentMob,
                            "Left the mob", fail, TRUE), NULL)

\* joinMob of MyMobScreen when the request fail ends in an error other
\* than 23505: the error of the lookup gives 'Invalid invite code', the
\* error of the INSERT is thrown and 'Failed to join mob' is shown
JoinMobRequests(p, typed, fail) ==
  /\ screen[p].pc = "idle"
  /\ screen[p].currentMob = NULL
  /\ fail \in {"none", "select", "insert"}
  /\ LET r == JoinMobRows(typed, screen[p].uid)
     IN  /\ fail = "select" => Trim(typed) # << >>
         /\ fail = "insert" => r.alert = "Success!"
         /\ members' = IF fail = "none" THEN r.members ELSE members
         /\ UNCHANGED mobs
         /\ Show(p, StorageOutcome("joinMob", screen[p].uid,
                       IF fail = "none" THEN r.mob ELSE NULL,
                       CASE fail = "select" -> "Invalid invite code"
                         [] fail = "insert" -> "Failed to join mob"
                         [] OTHER -> r.alert,
                       fail, fail = "none" /\ r.alert = "Success!"),
                 IF fail = "none" /\ r.mob # NULL
                   THEN LoadedMob(r.members, screen[p].uid, r.mob) ELSE NULL)

\* the requests that can fail
Failures == {"none", "select", "delete", "insert", "count"}

\* a mob that a user created exists, its owner being its only member; one
\* device is signed in, as any user, its mob screen loaded; no clip yet
InitStorage ==
  /\ clips = EmptyMap /\ votes = {} /\ owner = [s \in Spots |-> NULL]
  /\ nextClip = 1 /\ nextVote = 1 /\ now = 0
  /\ tx = [p \in Procs |-> IdleTx]
  /\ last = NoOp /\ prev = NoOp
  /\ \E o \in Users :
        /\ mobs = MobRowsOf([m \in {1} |-> [name |-> <<"a">>, owner_user_id |-> o]])
        /\ members = AddMobOwnerAsMember({}, 1, o)
  /\ profiles = [u \in Users |-> [username |-> NULL, display_name |-> NULL]]
  /\ \E u \in Users :
        screen = [p \in Procs |->
                    [uid |-> IF p = Session THEN u ELSE NULL,
                     currentMob |-> IF p = Session
                                      THEN LoadedMob(members, u, NULL) ELSE NULL,
                     pc |-> "idle", name |-> << >>, code |-> << >>]]
  /\ board = << >>

\* uploads, vote toggles of both kinds and the requests of the mob screen
\* of the device, any request of which may end in an error
NextStorage ==
  \/ \E u \in Users, s \in Spots : InsertClip(u, s, 1)
  \/ \E c \in ClipIds, fail \in Failures :
        ToggleVoteRequests(screen[Session].uid, c, fail)
  \/ \E c \in ClipIds, fail \in Failures :
        VoteRequests(screen[Session].uid, c, fail)
  \/ \E t \in GenerateInviteCode, fail \in Failures : JoinMobRequests(Session, t, fail)
  \/ \E fail \in Failures : LeaveMobRequests(Session, fail)

SpecStorage == InitStorage /\ [][NextStorage]_vars

\* C35: whenever a request of a vote or membership operation has failed,
\* the caller is told that the operation failed
C35_FailuresReturned ==
  ("failed" \in DOMAIN last /\ last.failed # "none") => ~last.success

\* C36: the resolver has one winner for every set of clips: a run of
\* _recalc_spot_owner sets the owner to the uploader of every clip that
\* is first by vote_count descending, created_at ascending, also when
\* clips tie on both keys, so that every run over the same clips sets the
\* same owner
C36_UniqueWinner ==
  [][\A c \in ClipIds :
        RecalcOwner(c)
          => LET s == clips[c].spot_id
                 first(d) ==
                   \A e \in ClipsOfSpot(clips, s) :
                      \/ CountRank(clips[d].vote_count) > CountRank(clips[e].vote_count)
                      \/ /\ CountRank(clips[d].vote_count)
                              = CountRank(clips[e].vote_count)
                         /\ clips[d].created_at <= clips[e].created_at
             IN  \A d \in ClipsOfSpot(clips, s) :
                    first(d) => owner'[s] = clips[d].user_id]_vars

\* C37: leaderboard reads are deterministic: a read of get_mob_leaderboard
\* that follows a read with the same limit, with no table changed in
\* between, returns the same sequence of rows, also when mobs tie on the
\* number of spots and on the name
C37_ReadsRepeat ==
  [][\A l \in Limits :
        (/\ last.op = "get_mob_leaderboard" /\ last.action = "rows"
         /\ last.count = l
         /\ GetMobLeaderboard(l))
          => board' = board]_vars

\* C38: the insert of a clip with vote_count 0 and a created_at later than
\* that of every clip of its spot leaves the owner of a spot that had a
\* clip as it was, and makes the uploader the owner of a spot that had none
C38_InsertKeepsOwner ==
  [][\A u \in Users, s \in Spots, dt \in {0, 1} :
        (/\ InsertClip(u, s, dt)
         /\ \A d \in ClipsOfSpot(clips, s) : clips[d].created_at < now')
          => IF ClipsOfSpot(clips, s) # {}
               THEN owner'[s] = owner[s]
               ELSE owner'[s] = u]_vars

\* the sum of spots_owned over the rows of a result
RECURSIVE TotalSpotsOwned(_)
TotalSpotsOwned(rows) ==
  IF rows = << >> THEN 0
  ELSE Head(rows).spots_owned + TotalSpotsOwned(Tail(rows))

\* C39: the spots_owned values of a result of get_leaderboard that the
\* limit does not cut add up to the number of spots that have an owner:
\* each owned spot is counted for exactly one user
C39_OwnedSpotsCountedOnce ==
  [][\A l \in Limits :
        (GetLeaderboard(l) /\ l >= Cardinality(Ranked(owner)))
          => TotalSpotsOwned(board')
               = Cardinality({s \in Spots : owner[s] # NULL})]_vars

\* an uncut result with the rows of two owners has been read
C39_Witness ==
  /\ last.op = "get_leaderboard" /\ last.action = "rows"
  /\ last.count >= Cardinality(Ranked(owner))
  /\ Len(board) = 2
  /\ board[1].id # board[2].id
  /\ TotalSpotsOwned(board) = NumSpots

====
